---- MODULE Spec2Model ----
(***************************************************************************)
(* Model of the Regent support e-mail automation worker: the webhook       *)
(* handler and the per-message procedure (src/src/entry.py), the Gemini    *)
(* classifier (src/src/classifier.py), the Presidio masking adapter        *)
(* (src/src/presidio.py), the mailbox client (src/src/msgraph.py) and the  *)
(* D1 store (src/src/database.py).                                         *)
(*                                                                         *)
(* Conventions.  A JSON key that is absent is the string NoKey, a JSON     *)
(* null / Python None is the string Null.  A confidence is a record        *)
(* [t, v]: t = "num" carries the number v in units of 1/200 (so 1.0 is     *)
(* 200 and 0.3 is 60), the other t are the non-numeric JSON values.  A     *)
(* text is a sequence of atoms, an atom standing for a run of characters.  *)
(***************************************************************************)
EXTENDS Integers, Sequences, FiniteSets, TLC

VARIABLES
    store,      \* rows of the emails table: set of [id, message_id, classification, confidence]
    usage,      \* rows of the llm usage table: set of [email_id, total_tokens]
    categories, \* mailbox side: message id -> the categories of the message, as last PATCHed
    pc,         \* per invocation: position in fetch / _handle_webhook_notification / _process_email
    req,        \* per invocation: the HTTP request being served
    idx,        \* per invocation: loop index i over notifications
    cur,        \* per invocation: notifications[i] most recently examined
    mid,        \* per invocation: message_id handed to _process_email
    email,      \* per invocation: result of get_email_by_id
    masked,     \* per invocation: result of mask_email_content
    result,     \* per invocation: classification_result
    calls,      \* per invocation: external calls of the current _process_email, in order
    runs,       \* per invocation: completed _process_email calls of this request, in order
    resp,       \* per invocation: the HTTP response returned
    probe,      \* a single function application: [fn, in, out, done]
    cron,       \* the scheduled handler: [pc, subscriptions, i, calls, renewed_count]
    admin,      \* a subscription management request: [pc, req, calls, resp]
    provider,   \* provider side: the ids of the subscriptions that exist
    timeline    \* one subscription in time: [now, period, next_fire, expires, failed, renewed]

vars == <<store, usage, categories, pc, req, idx, cur, mid, email, masked, result,
          calls, runs, resp, probe, cron, admin, provider, timeline>>

NoKey == "<absent>"
Null == "<null>"

Max(a, b) == IF a >= b THEN a ELSE b
Min(a, b) == IF a <= b THEN a ELSE b

RECURSIVE SeqSum(_)
SeqSum(s) == IF s = <<>> THEN 0 ELSE Head(s) + SeqSum(Tail(s))

Range(s) == {s[k] : k \in 1..Len(s)}

(***************************************************************************)
(* config.py: the configured tag set.                                      *)
(***************************************************************************)
CLASSIFICATION_TAGS ==
    <<"academic-results", "academic-exam", "academic-assignment", "admin-transcript",
      "admin-graduation", "finance-payment", "finance-fees", "registration",
      "technical-proctoring", "technical-access", "general-inquiry",
      "complaint-escalation">>

valid_tags == Range(CLASSIFICATION_TAGS)

(***************************************************************************)
(* Texts of a model completion.  An atom is a record [k, cls, conf,        *)
(* reason]: k names the run of characters ("fence" for three backquotes,   *)
(* "fencejson" for three backquotes and the word json, "nl" for a          *)
(* newline, "sp" for a blank, "word" for prose without braces, "{", "}",   *)
(* "array" for a JSON array literal) and k = "body" stands for the         *)
(* key/value pairs of one JSON object, carried in cls, conf and reason.    *)
(***************************************************************************)
NoConf == [t |-> "missing", v |-> 0]
Num(v) == [t |-> "num", v |-> v]
Tok(k) == [k |-> k, cls |-> NoKey, conf |-> NoConf, reason |-> NoKey]
BodyTok(c, f, r) == [k |-> "body", cls |-> c, conf |-> f, reason |-> r]

IsWs(t) == t.k \in {"nl", "sp"}

\* str.strip(): leading and trailing whitespace removed
RECURSIVE LStrip(_)
LStrip(s) == IF s # <<>> /\ IsWs(Head(s)) THEN LStrip(Tail(s)) ELSE s
RECURSIVE RStrip(_)
RStrip(s) ==
    IF s # <<>> /\ IsWs(s[Len(s)]) THEN RStrip(SubSeq(s, 1, Len(s) - 1)) ELSE s
Strip(s) == RStrip(LStrip(s))

\* str.startswith of three backquotes and of an opening brace
StartsWithFence(s) == s # <<>> /\ s[1].k \in {"fence", "fencejson"}
StartsWithBrace(s) == s # <<>> /\ s[1].k = "{"

\* str.split("\n"): the lines of s, at least one
RECURSIVE SplitLines(_, _)
SplitLines(s, line) ==
    IF s = <<>> THEN <<line>>
    ELSE IF Head(s).k = "nl" THEN <<line>> \o SplitLines(Tail(s), <<>>)
    ELSE SplitLines(Tail(s), Append(line, Head(s)))

\* "\n".join(lines)
RECURSIVE JoinLines(_)
JoinLines(ls) ==
    IF ls = <<>> THEN <<>>
    ELSE IF Len(ls) = 1 THEN ls[1]
    ELSE ls[1] \o <<Tok("nl")>> \o JoinLines(Tail(ls))

\* str.find / str.rfind of a one-atom needle: 0-based index, -1 when absent
Find(s, k) ==
    IF \E j \in 1..Len(s) : s[j].k = k
    THEN (CHOOSE j \in 1..Len(s) : s[j].k = k /\ \A h \in 1..(j - 1) : s[h].k # k) - 1
    ELSE -1
RFind(s, k) ==
    IF \E j \in 1..Len(s) : s[j].k = k
    THEN (CHOOSE j \in 1..Len(s) : s[j].k = k /\ \A h \in (j + 1)..Len(s) : s[h].k # k) - 1
    ELSE -1

\* s[a:b] for 0 <= a, 0 <= b
Slice(s, a, b) == SubSeq(s, a + 1, Min(b, Len(s)))

\* classifier.py 112-126: strip, drop the fence lines of a fenced block, cut to the braces
CleanCompletion(text) ==
    LET t1 == Strip(text)
        lines == SplitLines(t1, <<>>)
        n == Len(lines)
        t2 == IF StartsWithFence(t1)
              THEN IF Strip(lines[n]) = <<Tok("fence")>>
                   THEN JoinLines(SubSeq(lines, 2, n - 1))
                   ELSE JoinLines(SubSeq(lines, 2, n))
              ELSE t1
        start == Find(t2, "{")
        end == RFind(t2, "}") + 1
    IN  IF ~StartsWithBrace(t2) /\ start # -1 /\ end > start
        THEN Slice(t2, start, end)
        ELSE t2

\* json.loads: "error" (JSONDecodeError), "array" (a value that is no object) or an
\* "object" with its members; whitespace between the atoms is insignificant
RECURSIVE DropWs(_)
DropWs(s) ==
    IF s = <<>> THEN <<>>
    ELSE IF IsWs(Head(s)) THEN DropWs(Tail(s))
    ELSE <<Head(s)>> \o DropWs(Tail(s))

JsonLoads(text) ==
    LET s == DropWs(text)
    IN  IF Len(s) = 3 /\ s[1].k = "{" /\ s[2].k = "body" /\ s[3].k = "}"
        THEN [kind |-> "object", cls |-> s[2].cls, conf |-> s[2].conf,
              reason |-> s[2].reason]
        ELSE IF Len(s) = 2 /\ s[1].k = "{" /\ s[2].k = "}"
        THEN [kind |-> "object", cls |-> NoKey, conf |-> NoConf, reason |-> NoKey]
        ELSE IF Len(s) = 1 /\ s[1].k = "array"
        THEN [kind |-> "array", cls |-> NoKey, conf |-> NoConf, reason |-> NoKey]
        ELSE [kind |-> "error", cls |-> NoKey, conf |-> NoConf, reason |-> NoKey]

(***************************************************************************)
(* classifier.py: classify_email.  A reply of the LLM endpoint is          *)
(* [http, status, usageMetadata, shape, text]: http = "throw" when fetch   *)
(* itself rejects, "nonok" / "ok" by response.ok; shape tells whether      *)
(* candidates and parts are there.  A result is [kind, classification,     *)
(* confidence, reason, token_usage]; kind = "raise" when an exception      *)
(* leaves classify_email, and then the other fields mean nothing.          *)
(***************************************************************************)
NoUsage == [present |-> FALSE, input_tokens |-> 0, output_tokens |-> 0, total_tokens |-> 0]
NoReason == [k |-> "none", arg |-> NoKey]

Raise == [kind |-> "raise", classification |-> NoKey, confidence |-> 0,
          reason |-> NoReason, token_usage |-> NoUsage]

\* 0.3 and 0.5 in units of 1/200
FloorConfidence == 60
DefaultConfidence == 100

\* classifier.py 86-94
TokenUsage(meta) ==
    IF meta.k = "counts"
    THEN [present |-> TRUE, input_tokens |-> meta.p, output_tokens |-> meta.c,
          total_tokens |-> meta.t]
    ELSE NoUsage

\* classifier.py 146-153 and 76-81: the two fallback results
ParseFallback(token_usage, why) ==
    [kind |-> "return", classification |-> "general", confidence |-> 0,
     reason |-> [k |-> "parse", arg |-> why], token_usage |-> token_usage]

\* as HttpFallback, but the reason does not tell the status and a usage is reported
HttpFallbackAnonymous(status) ==
    [kind |-> "return", classification |-> "general", confidence |-> 0,
     reason |-> [k |-> "http", arg |-> "error"],
     token_usage |-> [NoUsage EXCEPT !.present = TRUE]]

HttpFallback(status) ==
    [kind |-> "return", classification |-> "general", confidence |-> 0,
     reason |-> [k |-> "http", arg |-> status], token_usage |-> NoUsage]

\* result.get("confidence", 0.5)
GetConfidence(obj) == IF obj.conf.t = "missing" THEN Num(DefaultConfidence) ELSE obj.conf

\* as ValidateTag, but the halved confidence is not raised to the floor
ValidateTagNoFloor(obj) ==
    IF obj.cls \in valid_tags THEN [ok |-> TRUE, obj |-> obj]
    ELSE IF GetConfidence(obj).t # "num" THEN [ok |-> FALSE, obj |-> obj]
    ELSE [ok |-> TRUE,
          obj |-> [kind |-> "object", cls |-> "general",
                   conf |-> Num(GetConfidence(obj).v \div 2),
                   reason |-> obj.reason]]

\* classifier.py 131-137: an object whose tag is not configured is rewritten;
\* [ok, obj]: ok = FALSE when the multiplication raises TypeError
ValidateTag(obj) ==
    IF obj.cls \in valid_tags THEN [ok |-> TRUE, obj |-> obj]
    ELSE IF GetConfidence(obj).t # "num" THEN [ok |-> FALSE, obj |-> obj]
    ELSE [ok |-> TRUE,
          obj |-> [kind |-> "object", cls |-> "general",
                   conf |-> Num(Max(FloorConfidence, GetConfidence(obj).v \div 2)),
                   reason |-> obj.reason]]

\* classifier.py 139-144: float() of a number or of a numeric string
ToResult(obj, corrected, token_usage) ==
    LET c == GetConfidence(obj)
        why == IF corrected THEN [k |-> "corrected", arg |-> obj.reason]
               ELSE IF obj.reason = NoKey THEN [k |-> "default", arg |-> NoKey]
               ELSE [k |-> "model", arg |-> obj.reason]
    IN  IF c.t \in {"num", "str"}
        THEN [kind |-> "return", classification |-> obj.cls, confidence |-> c.v,
              reason |-> why, token_usage |-> token_usage]
        ELSE ParseFallback(token_usage, "float")

classify_email(reply) ==
    IF reply.http = "throw" THEN Raise
    ELSE IF reply.http = "nonok" THEN HttpFallback(reply.status)
    ELSE
      LET token_usage == TokenUsage(reply.usageMetadata)
          text == IF reply.shape = "notext" THEN <<>> ELSE reply.text
          parsed == JsonLoads(CleanCompletion(text))
          v == ValidateTag(parsed)
      IN  IF reply.shape = "nocandidates" THEN ParseFallback(token_usage, "No candidates")
          ELSE IF reply.shape = "noparts" THEN ParseFallback(token_usage, "No parts")
          ELSE IF parsed.kind = "error" THEN ParseFallback(token_usage, "json")
          ELSE IF parsed.kind = "array" THEN Raise
          ELSE IF ~v.ok THEN ParseFallback(token_usage, "multiply")
          ELSE ToResult(v.obj, parsed.cls \notin valid_tags, token_usage)

(***************************************************************************)
(* The replies the LLM endpoint is taken to give: every wrapping of one    *)
(* JSON object the cleaning code distinguishes, around every combination   *)
(* of tag, confidence and reason the validation code distinguishes.        *)
(***************************************************************************)
Percent(p) == Num(2 * p)

ReplyTags == {"finance-payment", "general-inquiry", "general", "invalid_tag", Null, NoKey}
ReplyConfidences ==
    {Percent(p) : p \in {-50, 0, 20, 60, 80, 90, 100, 150}}
    \cup {NoConf, [t |-> "str", v |-> 160], [t |-> "strbad", v |-> 0],
          [t |-> "null", v |-> 0]}
ReplyReasons == {"fees", NoKey}

Core(c, f, r) == <<Tok("{"), BodyTok(c, f, r), Tok("}")>>

Wrappings == {"bare", "fenced", "fencedplain", "prefixed", "suffixed", "prefixfenced",
              "fencedsuffix", "fencednoclose", "padded"}

Wrap(w, core) ==
    CASE w = "bare" -> core
      [] w = "fenced" -> <<Tok("fencejson"), Tok("nl")>> \o core \o <<Tok("nl"), Tok("fence")>>
      [] w = "fencedplain" -> <<Tok("fence"), Tok("nl")>> \o core \o <<Tok("nl"), Tok("fence")>>
      [] w = "prefixed" -> <<Tok("word"), Tok("sp")>> \o core
      [] w = "suffixed" -> core \o <<Tok("sp"), Tok("word")>>
      [] w = "prefixfenced" ->
            <<Tok("word"), Tok("sp"), Tok("fencejson"), Tok("nl")>> \o core
            \o <<Tok("nl"), Tok("fence")>>
      [] w = "fencedsuffix" ->
            <<Tok("fencejson"), Tok("nl")>> \o core
            \o <<Tok("nl"), Tok("fence"), Tok("nl"), Tok("word")>>
      [] w = "fencednoclose" -> <<Tok("fencejson"), Tok("nl")>> \o core
      [] w = "padded" -> <<Tok("nl"), Tok("sp")>> \o core \o <<Tok("nl")>>

ObjectTexts ==
    {Wrap(w, Core(c, f, r)) : w \in Wrappings, c \in ReplyTags, f \in ReplyConfidences,
                              r \in ReplyReasons}
OtherTexts ==
    {<<>>, <<Tok("word")>>, <<Tok("array")>>, <<Tok("{"), Tok("}")>>,
     <<Tok("fence")>>, <<Tok("word"), Tok("{"), Tok("word")>>}

UsageMetas ==
    {[k |-> "absent", p |-> 0, c |-> 0, t |-> 0], [k |-> "empty", p |-> 0, c |-> 0, t |-> 0],
     [k |-> "counts", p |-> 10, c |-> 5, t |-> 15]}

OkReply(meta, shape, text) ==
    [http |-> "ok", status |-> "200", usageMetadata |-> meta, shape |-> shape, text |-> text]
FailReply(http, status) ==
    [http |-> http, status |-> status, usageMetadata |-> [k |-> "absent", p |-> 0, c |-> 0, t |-> 0],
     shape |-> "nocandidates", text |-> <<>>]

LLMReplies ==
    {OkReply(m, "text", t) : m \in UsageMetas, t \in ObjectTexts \cup OtherTexts}
    \cup {OkReply(m, sh, <<>>) : m \in UsageMetas, sh \in {"nocandidates", "noparts", "notext"}}
    \cup {FailReply("nonok", st) : st \in {"429", "500"}}
    \cup {FailReply("throw", "0")}

(***************************************************************************)
(* presidio.py.  A text is a sequence of atoms (strings), an entity is     *)
(* [entity_type, start, end] with start and end the offsets of a slice     *)
(* text[start:end], counted in atoms.  An answer of a Presidio service is  *)
(* [out, entities] for the analyzer and [out, text] for the anonymizer,    *)
(* out = "throw" (unreachable: fetch rejects), "nonok" (response.ok is     *)
(* false) or "ok"; an anonymizer answer may also be "oknotext", a success  *)
(* body without the key text.  The services themselves are modelled        *)
(* first: when they answer, the analyzer reports the e-mail addresses,     *)
(* phone numbers and person names of the text, and the anonymizer          *)
(* replaces every span it is sent by a placeholder naming its type.        *)
(***************************************************************************)
regent_domains == {"@regent.ac.za", "@myregent.ac.za"}

\* str.lower() on an atom
LowerAtom(a) ==
    CASE a = "@Regent.ac.za" -> "@regent.ac.za"
      [] a = "John" -> "john"
      [] a = "Hi" -> "hi"
      [] OTHER -> a

WsAtoms == {" ", "\n"}

\* not text or not text.strip()
IsBlank(text) == \A j \in 1..Len(text) : text[j] \in WsAtoms

\* text[start:end]
TextSlice(text, start, end) == SubSeq(text, start + 1, Min(end, Len(text)))

LocalParts == {"john", "info", "x"}
DomainAtoms == {"@gmail.com", "@regent.ac.za", "@Regent.ac.za", "@myregent.ac.za"}

\* the span of the entity that starts at offset j of text, or none (end = j)
EntityAt(text, j) ==
    LET a == text[j + 1]
        hasDomain == j + 2 <= Len(text) /\ text[j + 2] \in DomainAtoms
        longer == j + 3 <= Len(text) /\ text[j + 3] = ".example.com"
    IN  IF a \in LocalParts /\ hasDomain
        THEN [entity_type |-> "EMAIL_ADDRESS", start |-> j,
              end |-> IF longer THEN j + 3 ELSE j + 2]
        ELSE IF a = "0821234567"
        THEN [entity_type |-> "PHONE_NUMBER", start |-> j, end |-> j + 1]
        ELSE IF a = "John"
        THEN [entity_type |-> "PERSON", start |-> j, end |-> j + 1]
        ELSE [entity_type |-> "NONE", start |-> j, end |-> j]

RECURSIVE AnalyzerFinds(_, _)
AnalyzerFinds(text, j) ==
    IF j >= Len(text) THEN <<>>
    ELSE LET e == EntityAt(text, j)
         IN  IF e.end > j THEN <<e>> \o AnalyzerFinds(text, e.end)
             ELSE AnalyzerFinds(text, j + 1)

Placeholder(entity_type) ==
    CASE entity_type = "EMAIL_ADDRESS" -> "<EMAIL_ADDRESS>"
      [] entity_type = "PHONE_NUMBER" -> "<PHONE_NUMBER>"
      [] entity_type = "PERSON" -> "<PERSON>"
      [] OTHER -> "<PII>"

RECURSIVE AnonymizerReplaces(_, _, _)
AnonymizerReplaces(text, entities, j) ==
    IF j >= Len(text) THEN <<>>
    ELSE IF \E k \in 1..Len(entities) : entities[k].start = j /\ entities[k].end > j
    THEN LET e == entities[CHOOSE k \in 1..Len(entities) :
                              entities[k].start = j /\ entities[k].end > j]
         IN  <<Placeholder(e.entity_type)>> \o AnonymizerReplaces(text, entities, e.end)
    ELSE <<text[j + 1]>> \o AnonymizerReplaces(text, entities, j + 1)

AnalyzerAnswer(out, text) ==
    [out |-> out, entities |-> IF out = "ok" THEN AnalyzerFinds(text, 0) ELSE <<>>]
AnonymizerAnswer(out, text, entities) ==
    [out |-> out, text |-> IF out = "ok" THEN AnonymizerReplaces(text, entities, 0) ELSE <<>>]

\* presidio.py 86-95
RECURSIVE filter_regent_emails(_, _)
filter_regent_emails(text, analyzer_results) ==
    IF analyzer_results = <<>> THEN <<>>
    ELSE
      LET r == Head(analyzer_results)
          email_text == TextSlice(text, r.start, r.end)
          regent == \E j \in 1..Len(email_text) : LowerAtom(email_text[j]) \in regent_domains
          rest == filter_regent_emails(text, Tail(analyzer_results))
      IN  IF r.entity_type = "EMAIL_ADDRESS" /\ regent THEN rest ELSE <<r>> \o rest

\* presidio.py 45-83: the entity list analyze_text returns for an analyzer answer
analyze_text(an) == IF an.out = "ok" THEN an.entities ELSE <<>>

\* as anonymize_text, but the anonymizer is given every entity the analyzer found
anonymize_text_unfiltered(text, analyzer_results, anoOut) ==
    LET answer == AnonymizerAnswer(anoOut, text, analyzer_results)
    IN  IF analyzer_results = <<>>
        THEN [text |-> text, called |-> FALSE, sent |-> <<>>, sent_text |-> <<>>]
        ELSE [text |-> IF answer.out = "ok" THEN answer.text ELSE text,
              called |-> TRUE, sent |-> analyzer_results, sent_text |-> text]

\* presidio.py 98-139: [text, called, sent, sent_text]: the text returned, whether
\* the anonymizer was called, and the entity list and the text of the payload sent
\* to it; anoOut is how the anonymizer answers if it is called
anonymize_text(text, analyzer_results, anoOut) ==
    LET filtered_results == filter_regent_emails(text, analyzer_results)
        answer == AnonymizerAnswer(anoOut, text, filtered_results)
    IN  IF analyzer_results = <<>> \/ filtered_results = <<>>
        THEN [text |-> text, called |-> FALSE, sent |-> <<>>, sent_text |-> <<>>]
        ELSE [text |-> IF answer.out = "ok" THEN answer.text ELSE text,
              called |-> TRUE, sent |-> filtered_results, sent_text |-> text]

\* presidio.py 142-196
mask_pii(text, an, anoOut) ==
    LET analyzer_results == analyze_text(an)
        filtered_results == filter_regent_emails(text, analyzer_results)
        a == anonymize_text(text, analyzer_results, anoOut)
        base == [masked_text |-> text, original_text |-> text, entities_found |-> 0,
                 entities_masked |-> 0, success |-> FALSE, analyzed |-> FALSE,
                 anonymized |-> FALSE, sent |-> <<>>, sent_text |-> <<>>]
    IN  IF text = <<>> \/ IsBlank(text) THEN base
        ELSE IF analyzer_results = <<>>
        THEN [base EXCEPT !.success = TRUE, !.analyzed = TRUE]
        ELSE [base EXCEPT !.masked_text = a.text,
                          !.entities_found = Len(analyzer_results),
                          !.entities_masked = Len(filtered_results),
                          !.success = TRUE, !.analyzed = TRUE,
                          !.anonymized = a.called, !.sent = a.sent,
                          !.sent_text = a.sent_text]

\* presidio.py 199-268: svc[f] = [an, anoOut] is how the services answer the
\* calls made for field f
mask_email_content(subject, body, from_name, from_address, svc) ==
    LET subject_result == mask_pii(subject, svc["subject"].an, svc["subject"].anoOut)
        body_result == mask_pii(body, svc["body"].an, svc["body"].anoOut)
        name_result == mask_pii(from_name, svc["from_name"].an, svc["from_name"].anoOut)
        addr_result ==
            mask_pii(from_address, svc["from_address"].an, svc["from_address"].anoOut)
        used == <<subject_result, body_result>>
                \o (IF from_name # <<>> THEN <<name_result>> ELSE <<>>)
                \o (IF from_address # <<>> THEN <<addr_result>> ELSE <<>>)
    IN  [subject |-> subject_result.masked_text,
         body |-> body_result.masked_text,
         from_name |-> IF from_name # <<>> THEN name_result.masked_text ELSE from_name,
         from_address |->
            IF from_address # <<>> THEN addr_result.masked_text ELSE from_address,
         total_entities_found |-> SeqSum([k \in 1..Len(used) |-> used[k].entities_found]),
         total_entities_masked |-> SeqSum([k \in 1..Len(used) |-> used[k].entities_masked]),
         success |-> TRUE,
         analyze_calls |-> Cardinality({k \in 1..Len(used) : used[k].analyzed}),
         anonymize_calls |-> Cardinality({k \in 1..Len(used) : used[k].anonymized})]

(***************************************************************************)
(* Single applications of classify_email and mask_pii to every input of a  *)
(* bounded set: probe = [fn, in, out, done].                               *)
(***************************************************************************)
MaxEntities == 2

EntityTypes == {"EMAIL_ADDRESS", "PHONE_NUMBER", "PERSON"}

MaskTexts ==
    {<<>>, <<" ">>, <<"Hi">>, <<"john", "@gmail.com">>, <<"info", "@regent.ac.za">>,
     <<"info", "@Regent.ac.za">>, <<"x", "@regent.ac.za", ".example.com">>,
     <<"Hi", " ", "john", "@gmail.com">>, <<"John", " ", "0821234567">>,
     <<"info", "@myregent.ac.za", " ", "john", "@gmail.com">>}

Spans(text) ==
    {[entity_type |-> ty, start |-> a, end |-> b] :
        ty \in EntityTypes, a \in 0..(Len(text) - 1), b \in 1..Len(text)}

\* the entity lists an analyzer may report: spans in order, none overlapping
EntityLists(text) ==
    {es \in UNION {[1..n -> {e \in Spans(text) : e.start < e.end}] : n \in 0..MaxEntities} :
        \A k \in 1..(Len(es) - 1) : es[k].end <= es[k + 1].start}

AnalyzerAnswers(text) ==
    {[out |-> "ok", entities |-> es] : es \in EntityLists(text)}
    \cup {[out |-> o, entities |-> <<>>] : o \in {"throw", "nonok"}}

AnonymizerOutcomes == {"ok", "oknotext", "nonok", "throw"}

MaskInputs ==
    UNION {{[text |-> t, an |-> an, anoOut |-> o] :
                an \in AnalyzerAnswers(t), o \in AnonymizerOutcomes} : t \in MaskTexts}

(***************************************************************************)
(* database.py.  The emails table is a set of rows; message_id is UNIQUE   *)
(* and id is the AUTOINCREMENT key (init_db).                              *)
(***************************************************************************)
\* as email_exists, but the SELECT has lost its WHERE clause
email_exists_any(db, message_id) == db # {}

\* database.py 42-65: first() gives a row or null
email_exists(db, message_id) == \E row \in db : row.message_id = message_id

last_row_id(db) == IF db = {} THEN 0 ELSE CHOOSE n \in {r.id : r \in db} : \A r \in db : r.id <= n

\* the parameters save_email declares besides db (database.py 68-81)
save_email_params ==
    {"message_id", "subject", "snippet", "from_address", "from_name", "classification",
     "confidence", "reason", "received_at", "conversation_id", "draft_reply"}

\* x if x else d, for a text and for a string
OrText(x, d) == IF x = <<>> THEN d ELSE x
OrStr(x, d) == IF x \in {"", Null, NoKey} THEN d ELSE x

\* the parameters whose value the INSERT binds as it was given (database.py 102-111)
BoundAsGiven == {"message_id", "classification", "confidence"}

\* x if x else "" for a reason; EmptyReason is the empty string
EmptyReason == [k |-> "str", arg |-> ""]

\* database.py 68-115: [raised, why, db, row_id].  a holds the arguments and none
\* the names of those passed as None (the value a holds for them is not read).
\* The log line of 83 slices message_id and subject and raises TypeError on None;
\* the INSERT is refused (D1 raises) when a row with the message_id is there; a
\* row has the columns as bound, nulls naming those bound as NULL.
save_email(db, a, none) ==
    LET text(k, d) == IF k \in none THEN d ELSE OrText(a[k], d)
        str(k, d) == IF k \in none THEN d ELSE OrStr(a[k], d)
    IN  IF {"message_id", "subject"} \cap none # {}
        THEN [raised |-> TRUE, why |-> "TypeError", db |-> db, row_id |-> 0]
        ELSE IF \E row \in db : row.message_id = a.message_id
        THEN [raised |-> TRUE, why |-> "unique", db |-> db, row_id |-> 0]
        ELSE [raised |-> FALSE, why |-> "",
              db |-> db \cup {[id |-> last_row_id(db) + 1,
                               message_id |-> a.message_id,
                               conversation_id |-> str("conversation_id", ""),
                               subject |-> text("subject", <<"(No subject)">>),
                               snippet |-> str("snippet", ""),
                               from_address |-> text("from_address", <<>>),
                               from_name |-> text("from_name", <<>>),
                               classification |-> a.classification,
                               confidence |-> a.confidence,
                               reason |-> IF "reason" \in none THEN EmptyReason
                                          ELSE a.reason,
                               draft_reply |-> "",
                               received_at |-> str("received_at", ""),
                               nulls |-> none \cap BoundAsGiven]},
              row_id |-> last_row_id(db) + 1]

\* the row save_llm_usage is called to write (entry.py 258-267)
UsageRecord(email_id, token_usage) ==
    [email_id |-> email_id, model |-> "gemini-2.5-flash", operation |-> "classification",
     input_tokens |-> token_usage.input_tokens,
     output_tokens |-> token_usage.output_tokens,
     total_tokens |-> token_usage.total_tokens]

\* save_llm_usage, imported by entry.py 27 and not defined in database.py: one row
\* is added to the usage table
save_llm_usage(us, rec) == us \cup {rec}

(***************************************************************************)
(* entry.py: the webhook route.  A request is [method, validationToken,    *)
(* body, n]: validationToken is the query parameter as sent, body tells    *)
(* what request.text() parses to ("unparseable", "notobject", "novalue"    *)
(* for an object without value, "valuenull", "list" for a value array of   *)
(* n entries).  A notification entry is                                    *)
(* [kind, clientState, changeType, resource]; kind = "other" is an array   *)
(* element that is no object; resource is [k, path], k = "str" with the    *)
(* characters of the string in path, one atom per segment or slash.        *)
(***************************************************************************)
Workers == {"w1", "w2"}
MsgIds == {"m1", "m2"}
MaxBatch == 2
RaceBatch == 1

\* the binding self.env.WEBHOOK_VALIDATION_TOKEN, a secret and so a string
WEBHOOK_VALIDATION_TOKEN == "secret"

\* str(self.env.WEBHOOK_VALIDATION_TOKEN): str of a string is that string
expected_state == WEBHOOK_VALIDATION_TOKEN

Path(p) == [k |-> "str", path |-> p]
Resources ==
    {Path(<<"users", "/", "u", "/", "mailFolders", "/", "inbox", "/", "messages", "/", "m1">>),
     Path(<<"Users", "/", "u", "/", "Messages", "/", "m2">>),
     Path(<<"users", "/", "u", "/", "messages">>),
     Path(<<"users", "/", "u", "/", "messages", "/">>),
     Path(<<"users", "/", "u">>),
     Path(<<>>),
     [k |-> "null", path |-> <<>>],
     [k |-> "absent", path |-> <<>>]}

Entries ==
    {[kind |-> "object", clientState |-> cs, changeType |-> ct, resource |-> r] :
        cs \in {expected_state, "wrong", NoKey, Null},
        ct \in {"created", "updated", "deleted", NoKey},
        r \in Resources}
    \cup {[kind |-> "other", clientState |-> NoKey, changeType |-> NoKey,
           resource |-> [k |-> "absent", path |-> <<>>]]}

NoEntry == [kind |-> "none", clientState |-> NoKey, changeType |-> NoKey,
            resource |-> [k |-> "absent", path |-> <<>>]]

\* the validationToken parameter of the query string as sent: absent, or its raw
\* characters, an atom being a run of unreserved characters, a percent escape or "+"
NoParam == [k |-> "absent", raw |-> <<>>]
Param(raw) == [k |-> "value", raw |-> raw]
QueryTokens ==
    {NoParam, Param(<<>>), Param(<<"XYZ">>),
     Param(<<"token", "%2B", "with", "%2F", "special", "%3D", "chars">>),
     Param(<<"Validation", "%3A", "+", "Testing", "%20", "client">>)}

\* urllib.parse.unquote_plus on one atom
UnquoteAtom(a) ==
    CASE a = "%2B" -> "+"
      [] a = "%2F" -> "/"
      [] a = "%3D" -> "="
      [] a = "%3A" -> ":"
      [] a = "%20" -> " "
      [] a = "+" -> " "
      [] OTHER -> a

\* as validation_token, but the raw characters of the parameter are taken
validation_token_raw(q) == q.raw

\* entry.py 60-61: parse_qs(url.query).get("validationToken", [None])[0]; a blank
\* value is dropped by parse_qs, and None is written <<>> (both are falsy)
validation_token(q) ==
    IF q.k = "absent" \/ q.raw = <<>> THEN <<>>
    ELSE [j \in 1..Len(q.raw) |-> UnquoteAtom(q.raw[j])]

Requests(maxBatch) ==
    {[method |-> m, validationToken |-> t, body |-> b, n |-> 0] :
        m \in {"GET", "POST"}, t \in QueryTokens,
        b \in {"unparseable", "notobject", "novalue", "valuenull"}}
    \cup {[method |-> m, validationToken |-> t, body |-> "list", n |-> n] :
        m \in {"GET", "POST"}, t \in QueryTokens, n \in 0..maxBatch}

\* dict.get(key, "") of a member that may be absent
GetOr(v, d) == IF v = NoKey THEN d ELSE v

\* str.lower() on a path segment
LowerSeg(a) ==
    CASE a = "Messages" -> "messages"
      [] a = "MESSAGES" -> "messages"
      [] a = "Users" -> "users"
      [] a = "mailFolders" -> "mailfolders"
      [] OTHER -> a

\* resource.split("/"): the segments, at least one, "" for an empty one
RECURSIVE SplitPath(_, _)
SplitPath(s, seg) ==
    IF s = <<>> THEN <<seg>>
    ELSE IF Head(s) = "/" THEN <<seg>> \o SplitPath(Tail(s), "")
    ELSE SplitPath(Tail(s), Head(s))

\* as ExtractMessageId, but the loop does not stop at its first hit
ExtractMessageIdLast(resource) ==
    LET parts == SplitPath(resource, "")
        hits == {j \in 1..Len(parts) : LowerSeg(parts[j]) = "messages" /\ j + 1 <= Len(parts)}
    IN  IF hits = {} THEN Null
        ELSE parts[(CHOOSE j \in hits : \A h \in hits : j >= h) + 1]

\* entry.py 150-155: the segment after the first "messages" that has one, Null if none
ExtractMessageId(resource) ==
    LET parts == SplitPath(resource, "")
        hits == {j \in 1..Len(parts) : LowerSeg(parts[j]) = "messages" /\ j + 1 <= Len(parts)}
    IN  IF hits = {} THEN Null
        ELSE parts[(CHOOSE j \in hits : \A h \in hits : j <= h) + 1]

\* entry.py 150-162: the id _process_email is called with, Null when message_id is
\* falsy and the entry is passed over with a warning
HandedId(resource) ==
    LET message_id == ExtractMessageId(resource)
    IN  IF message_id \in {Null, ""} THEN Null ELSE message_id

Response(body, status) == [status |-> status, body |-> body]
NoResponse == [status |-> 0, body |-> <<>>]

\* entry.py 165 and 167-170
WebhookAccepted == Response(<<>>, 202)

\* as WebhookErrorResponse, but the handler reports the failure to the provider
WebhookErrorResponse500 == Response(<<>>, 500)

WebhookErrorResponse == Response(<<>>, 202)

(***************************************************************************)
(* msgraph.py: the mailbox.  get_email_by_id gives the message of the id.  *)
(***************************************************************************)
Mailbox(m) ==
    IF m = "m1"
    THEN [subject |-> <<"Hi", " ", "John">>,
          body_content |-> <<"john", "@gmail.com", " ", "0821234567">>,
          body_preview |-> "preview-1", from_name |-> <<"John">>,
          from_address |-> <<"john", "@gmail.com">>, conversation_id |-> "conv-1",
          received_datetime |-> "2024-01-01T00:00:00Z"]
    ELSE [subject |-> <<>>,
          body_content |-> <<"info", "@regent.ac.za">>,
          body_preview |-> "", from_name |-> <<>>,
          from_address |-> <<"info", "@regent.ac.za">>, conversation_id |-> "",
          received_datetime |-> "2024-01-02T00:00:00Z"]

NoEmail == [subject |-> <<>>, body_content |-> <<>>, body_preview |-> "", from_name |-> <<>>,
            from_address |-> <<>>, conversation_id |-> "", received_datetime |-> ""]

NoMasked == [subject |-> <<>>, body |-> <<>>, from_name |-> <<>>, from_address |-> <<>>,
             total_entities_found |-> 0, total_entities_masked |-> 0, success |-> FALSE,
             analyze_calls |-> 0, anonymize_calls |-> 0]

\* entry.py 224: classification.replace('-', ' ').title()
CategoryName(tag) ==
    CASE tag = "general" -> "General"
      [] tag = "general-inquiry" -> "General Inquiry"
      [] tag = "finance-payment" -> "Finance Payment"
      [] OTHER -> tag

(***************************************************************************)
(* What the surroundings may do in a specification: env = [entries,        *)
(* replies, presidio, outcomes, catOuts, maxBatch].  presidio holds the    *)
(* states the two Presidio services may be in during one                   *)
(* mask_email_content call; outcomes holds how the store, the token        *)
(* endpoint and the message endpoint may answer.                           *)
(***************************************************************************)
ValidReply ==
    OkReply([k |-> "counts", p |-> 10, c |-> 5, t |-> 15], "text",
            Wrap("bare", Core("finance-payment", Percent(80), "fees")))

PipelineReplies ==
    {ValidReply,
     OkReply([k |-> "absent", p |-> 0, c |-> 0, t |-> 0], "text",
             Wrap("fenced", Core("invalid_tag", Percent(90), "fees"))),
     OkReply([k |-> "counts", p |-> 10, c |-> 5, t |-> 15], "text", <<Tok("word")>>),
     OkReply([k |-> "absent", p |-> 0, c |-> 0, t |-> 0], "text", <<Tok("array")>>),
     FailReply("nonok", "500"),
     FailReply("throw", "0")}

PresidioStates == {"unreachable", "nonok", "anonymizer-nonok", "up"}

\* how the analyzer and the anonymizer answer in a state of the services
AnalyzerOut(st) ==
    CASE st = "unreachable" -> "throw" [] st = "nonok" -> "nonok" [] OTHER -> "ok"
AnonymizerOut(st) ==
    CASE st = "unreachable" -> "throw" [] st = "up" -> "ok" [] OTHER -> "nonok"

FullEnv ==
    [entries |-> Entries, replies |-> PipelineReplies, presidio |-> PresidioStates,
     outcomes |-> {"ok", "fail"}, catOuts |-> {"true", "false", "raise"},
     maxBatch |-> MaxBatch]

CalmEnv ==
    [entries |-> {e \in Entries : e.clientState = expected_state /\ e.changeType = "created"
                                  /\ e.resource.k = "str"},
     replies |-> {ValidReply}, presidio |-> {"up"},
     outcomes |-> {"ok"}, catOuts |-> {"true", "false"}, maxBatch |-> RaceBatch]

\* a management request [op, body, arg]: body tells what request.json() gives
\* ("unparseable", "notobject", "object"), arg is webhook_url or subscription_id
NoAdminRequest == [op |-> "none", body |-> "object", arg |-> NoKey]
\* a management response: the HTTP status and the members of the JSON body
AdminResponse(status, kind, detail, upstream, text) ==
    [status |-> status, kind |-> kind, detail |-> detail, upstream |-> upstream,
     text |-> text]
NoAdminResponse == AdminResponse(0, "none", NoKey, NoKey, NoKey)
AdminIdle == [pc |-> "idle", req |-> NoAdminRequest, calls |-> <<>>, resp |-> NoAdminResponse]

\* times are minutes; no subscription is followed in time
NoTimeline == [now |-> 0, period |-> 0, next_fire |-> 0, expires |-> 0, failed |-> FALSE,
               renewed |-> 0]

\* the scheduled handler before its first trigger
CronIdle == [pc |-> "idle", subscriptions |-> <<>>, i |-> 0, calls |-> <<>>,
             renewed_count |-> 0, access_token |-> Null, used |-> <<>>]

Call(op, out) == [op |-> op, out |-> out]
Ops(cs) == {cs[k].op : k \in 1..Len(cs)}

\* no handler is running and nothing is in flight
InitHandlers ==
    /\ usage = {}
    /\ categories = [m \in MsgIds |-> <<>>]
    /\ pc = [w \in Workers |-> "idle"]
    /\ req = [w \in Workers |-> [method |-> "POST", validationToken |-> NoParam,
                                 body |-> "novalue", n |-> 0]]
    /\ idx = [w \in Workers |-> 0]
    /\ cur = [w \in Workers |-> NoEntry]
    /\ mid = [w \in Workers |-> Null]
    /\ email = [w \in Workers |-> NoEmail]
    /\ masked = [w \in Workers |-> NoMasked]
    /\ result = [w \in Workers |-> Raise]
    /\ calls = [w \in Workers |-> <<>>]
    /\ runs = [w \in Workers |-> <<>>]
    /\ resp = [w \in Workers |-> NoResponse]
    /\ cron = CronIdle
    /\ admin = AdminIdle
    /\ provider = {"s1"}

InitIdle ==
    /\ store = {}
    /\ timeline = NoTimeline
    /\ InitHandlers

Init ==
    /\ InitIdle
    /\ probe = [fn |-> "none"]

\* entry.py 47-73 and 114-124: routing of a request to /webhook, and the handler
\* up to its loop
Receive(w, env) ==
    /\ pc[w] = "idle"
    /\ \E r \in Requests(env.maxBatch) :
        /\ req' = [req EXCEPT ![w] = r]
        /\ IF validation_token(r.validationToken) # <<>>
           THEN /\ resp' = [resp EXCEPT ![w] =
                                Response(validation_token(r.validationToken), 200)]
                /\ pc' = [pc EXCEPT ![w] = "done"]
           ELSE IF r.method = "GET"
           THEN /\ resp' = [resp EXCEPT ![w] = Response(<<"Missing validationToken">>, 400)]
                /\ pc' = [pc EXCEPT ![w] = "done"]
           ELSE IF r.body \in {"unparseable", "notobject", "valuenull"}
           THEN /\ resp' = [resp EXCEPT ![w] = WebhookErrorResponse]
                /\ pc' = [pc EXCEPT ![w] = "done"]
           ELSE /\ resp' = [resp EXCEPT ![w] = NoResponse]
                /\ pc' = [pc EXCEPT ![w] = "loop"]
    /\ UNCHANGED <<store, usage, categories, idx, cur, mid, email, masked, result,
                   calls, runs, probe, cron, admin, provider, timeline>>

\* entry.py 130 and 164-165: the loop is over
Respond(w) ==
    /\ pc[w] = "loop"
    /\ idx[w] >= req[w].n
    /\ resp' = [resp EXCEPT ![w] = WebhookAccepted]
    /\ pc' = [pc EXCEPT ![w] = "done"]
    /\ UNCHANGED <<store, usage, categories, req, idx, cur, mid, email, masked, result,
                   calls, runs, probe, cron, admin, provider, timeline>>

\* as ClientStateOk, but an entry that carries no clientState is let through
ClientStateOkIfPresent(e) == e.clientState = NoKey \/ e.clientState = expected_state

\* entry.py 134-135 and 139-140
ClientStateOk(e) == GetOr(e.clientState, "") = expected_state

\* as ChangeTypeOk, but only the deleted and the missing change types are refused
ChangeTypeNotDeleted(e) == GetOr(e.changeType, "") \notin {"deleted", ""}

\* entry.py 139-143
ChangeTypeOk(e) == GetOr(e.changeType, "") = "created"

\* entry.py 131-162: one entry is examined, up to the call of _process_email
Examine(w, env) ==
    /\ pc[w] = "loop"
    /\ idx[w] < req[w].n
    /\ \E e \in env.entries :
        LET message_id == HandedId(e.resource.path)
        IN  /\ cur' = [cur EXCEPT ![w] = e]
            /\ calls' = [calls EXCEPT ![w] = <<>>]
            /\ IF e.kind # "object"
               THEN /\ resp' = [resp EXCEPT ![w] = WebhookErrorResponse]
                    /\ pc' = [pc EXCEPT ![w] = "done"]
                    /\ UNCHANGED <<idx, mid>>
               ELSE IF ~ClientStateOk(e) \/ ~ChangeTypeOk(e)
               THEN /\ idx' = [idx EXCEPT ![w] = idx[w] + 1]
                    /\ UNCHANGED <<resp, pc, mid>>
               ELSE IF e.resource.k = "null"
               THEN /\ resp' = [resp EXCEPT ![w] = WebhookErrorResponse]
                    /\ pc' = [pc EXCEPT ![w] = "done"]
                    /\ UNCHANGED <<idx, mid>>
               ELSE IF message_id = Null
               THEN /\ idx' = [idx EXCEPT ![w] = idx[w] + 1]
                    /\ UNCHANGED <<resp, pc, mid>>
               ELSE /\ mid' = [mid EXCEPT ![w] = message_id]
                    /\ pc' = [pc EXCEPT ![w] = "exists"]
                    /\ UNCHANGED <<resp, idx>>
    /\ UNCHANGED <<store, usage, categories, req, email, masked, result, runs, probe, cron, admin, provider, timeline>>

(***************************************************************************)
(* entry.py 172-272: _process_email, one action per awaited call.  Every   *)
(* exception ends the procedure in the handler of line 271; the loop then  *)
(* goes on with the next entry.                                            *)
(***************************************************************************)
\* as Finish, but an exception of the procedure ends the loop over the entries
FinishStopsLoop(w, end, cs) ==
    /\ runs' = [runs EXCEPT ![w] = Append(runs[w], [mid |-> mid[w], ops |-> Ops(cs),
                                                    end |-> end])]
    /\ calls' = [calls EXCEPT ![w] = cs]
    /\ idx' = [idx EXCEPT ![w] = IF end \in {"skipped", "persisted"} THEN idx[w] + 1
                                 ELSE idx[w]]
    /\ pc' = [pc EXCEPT ![w] = IF end \in {"skipped", "persisted"} THEN "loop" ELSE "done"]
    /\ email' = [email EXCEPT ![w] = NoEmail]
    /\ masked' = [masked EXCEPT ![w] = NoMasked]
    /\ result' = [result EXCEPT ![w] = Raise]

\* the procedure returns: its calls are kept, its locals are gone
Finish(w, end, cs) ==
    /\ runs' = [runs EXCEPT ![w] = Append(runs[w], [mid |-> mid[w], ops |-> Ops(cs),
                                                    end |-> end])]
    /\ calls' = [calls EXCEPT ![w] = cs]
    /\ idx' = [idx EXCEPT ![w] = idx[w] + 1]
    /\ pc' = [pc EXCEPT ![w] = "loop"]
    /\ email' = [email EXCEPT ![w] = NoEmail]
    /\ masked' = [masked EXCEPT ![w] = NoMasked]
    /\ result' = [result EXCEPT ![w] = Raise]

\* the procedure goes on to its next call
Goto(w, next, cs) ==
    /\ calls' = [calls EXCEPT ![w] = cs]
    /\ pc' = [pc EXCEPT ![w] = next]
    /\ UNCHANGED <<runs, idx>>

\* as ExistsCheck, but an id the invocation has tried before counts as processed
ExistsCheckRemembers(w, env) ==
    /\ pc[w] = "exists"
    /\ \E o \in env.outcomes :
        LET found == \/ email_exists(store, mid[w])
                     \/ \E k \in 1..Len(runs[w]) : runs[w][k].mid = mid[w]
            out == IF o = "fail" THEN "raise" ELSE IF found THEN "true" ELSE "false"
            cs == Append(calls[w], Call("email_exists", out))
        IN  IF o = "fail" THEN Finish(w, "db", cs)
            ELSE IF found THEN Finish(w, "skipped", cs)
            ELSE Goto(w, "token", cs) /\ UNCHANGED <<email, masked, result>>
    /\ UNCHANGED <<store, usage, categories, req, cur, mid, resp, probe, cron, admin, provider, timeline>>

\* entry.py 175-180
ExistsCheck(w, env) ==
    /\ pc[w] = "exists"
    /\ \E o \in env.outcomes :
        LET found == email_exists(store, mid[w])
            out == IF o = "fail" THEN "raise" ELSE IF found THEN "true" ELSE "false"
            cs == Append(calls[w], Call("email_exists", out))
        IN  IF o = "fail" THEN Finish(w, "db", cs)
            ELSE IF found THEN Finish(w, "skipped", cs)
            ELSE Goto(w, "token", cs) /\ UNCHANGED <<email, masked, result>>
    /\ UNCHANGED <<store, usage, categories, req, cur, mid, resp, probe, cron, admin, provider, timeline>>

\* as GetAccessToken, but the procedure goes on to the fetch without a token
GetAccessTokenSwallowed(w, env) ==
    /\ pc[w] = "token"
    /\ \E o \in env.outcomes :
        Goto(w, "fetch", Append(calls[w], Call("get_access_token", o)))
        /\ UNCHANGED <<email, masked, result>>
    /\ UNCHANGED <<store, usage, categories, req, cur, mid, resp, probe, cron, admin, provider, timeline>>

\* entry.py 182-187, msgraph.py 40-68
GetAccessToken(w, env) ==
    /\ pc[w] = "token"
    /\ \E o \in env.outcomes :
        LET cs == Append(calls[w], Call("get_access_token", o))
        IN  IF o = "fail" THEN Finish(w, "token", cs)
            ELSE Goto(w, "fetch", cs) /\ UNCHANGED <<email, masked, result>>
    /\ UNCHANGED <<store, usage, categories, req, cur, mid, resp, probe, cron, admin, provider, timeline>>

\* as GetEmailById, but a failed fetch is swallowed and the procedure goes on
GetEmailByIdSwallowed(w, env) ==
    /\ pc[w] = "fetch"
    /\ \E o \in env.outcomes :
        /\ Goto(w, "mask", Append(calls[w], Call("get_email_by_id", o)))
        /\ email' = [email EXCEPT ![w] = IF o = "fail" THEN NoEmail ELSE Mailbox(mid[w])]
        /\ UNCHANGED <<masked, result>>
    /\ UNCHANGED <<store, usage, categories, req, cur, mid, resp, probe, cron, admin, provider, timeline>>

\* entry.py 189-196, msgraph.py 71-107
GetEmailById(w, env) ==
    /\ pc[w] = "fetch"
    /\ \E o \in env.outcomes :
        LET cs == Append(calls[w], Call("get_email_by_id", o))
        IN  IF o = "fail" THEN Finish(w, "fetch", cs)
            ELSE /\ Goto(w, "mask", cs)
                 /\ email' = [email EXCEPT ![w] = Mailbox(mid[w])]
                 /\ UNCHANGED <<masked, result>>
    /\ UNCHANGED <<store, usage, categories, req, cur, mid, resp, probe, cron, admin, provider, timeline>>

\* entry.py 198-208: the two to four mask_pii calls of mask_email_content
MaskEmailContent(w, env) ==
    /\ pc[w] = "mask"
    /\ \E st \in env.presidio :
        LET e == email[w]
            svc == [f \in {"subject", "body", "from_name", "from_address"} |->
                      [an |-> AnalyzerAnswer(AnalyzerOut(st),
                                  CASE f = "subject" -> e.subject
                                    [] f = "body" -> e.body_content
                                    [] f = "from_name" -> e.from_name
                                    [] f = "from_address" -> e.from_address),
                       anoOut |-> AnonymizerOut(st)]]
            m == mask_email_content(e.subject, e.body_content, e.from_name,
                                    e.from_address, svc)
            cs == Append(calls[w], Call("mask_email_content", st))
        IN  /\ masked' = [masked EXCEPT ![w] = m]
            /\ Goto(w, "classify", cs)
    /\ UNCHANGED <<store, usage, categories, req, cur, mid, email, result, resp, probe, cron, admin, provider, timeline>>

\* the classify_email call in the log: how it ended and the subject and body it
\* was given
LLMCall(out, subject, body) ==
    [op |-> "classify_email", out |-> out, subject |-> subject, body |-> body]

\* as ClassifyEmail, but the fetched subject and body are passed
ClassifyEmailUnmasked(w, env) ==
    /\ pc[w] = "classify"
    /\ \E reply \in env.replies :
        LET r == classify_email(reply)
            cs == Append(calls[w], LLMCall(IF r.kind = "raise" THEN "raise" ELSE reply.http,
                                           email[w].subject, email[w].body_content))
        IN  IF r.kind = "raise" THEN Finish(w, "classify", cs)
            ELSE /\ result' = [result EXCEPT ![w] = r]
                 /\ Goto(w, "category", cs)
                 /\ UNCHANGED <<email, masked>>
    /\ UNCHANGED <<store, usage, categories, req, cur, mid, resp, probe, cron, admin, provider, timeline>>

\* entry.py 210-220: classify_email(key, masked["subject"], masked["body"])
ClassifyEmail(w, env) ==
    /\ pc[w] = "classify"
    /\ \E reply \in env.replies :
        LET r == classify_email(reply)
            cs == Append(calls[w], LLMCall(IF r.kind = "raise" THEN "raise" ELSE reply.http,
                                           masked[w].subject, masked[w].body))
        IN  IF r.kind = "raise" THEN Finish(w, "classify", cs)
            ELSE /\ result' = [result EXCEPT ![w] = r]
                 /\ Goto(w, "category", cs)
                 /\ UNCHANGED <<email, masked>>
    /\ UNCHANGED <<store, usage, categories, req, cur, mid, resp, probe, cron, admin, provider, timeline>>

\* as ApplyCategory, but a write that did not succeed is tried once more
ApplyCategoryRetried(w, env) ==
    /\ pc[w] = "category"
    /\ \E o \in env.catOuts :
        /\ categories' =
             IF o = "true"
             THEN [categories EXCEPT ![mid[w]] =
                        <<CategoryName(result[w].classification)>>]
             ELSE categories
        /\ Goto(w, "save",
                calls[w] \o (IF o = "true" THEN <<Call("apply_category_to_email", o)>>
                             ELSE <<Call("apply_category_to_email", o),
                                    Call("apply_category_to_email", o)>>))
    /\ UNCHANGED <<store, usage, req, cur, mid, email, masked, result, resp, probe, cron, admin, provider, timeline>>

\* entry.py 222-236, msgraph.py 110-131: neither False nor an exception stops it
ApplyCategory(w, env) ==
    /\ pc[w] = "category"
    /\ \E o \in env.catOuts :
        /\ categories' =
             IF o = "true"
             THEN [categories EXCEPT ![mid[w]] =
                        <<CategoryName(result[w].classification)>>]
             ELSE categories
        /\ Goto(w, "save", Append(calls[w], Call("apply_category_to_email", o)))
    /\ UNCHANGED <<store, usage, req, cur, mid, email, masked, result, resp, probe, cron, admin, provider, timeline>>

\* entry.py 240-254: the keyword arguments of the save_email call
SaveEmailKwargs(w) ==
    [message_id |-> mid[w],
     subject |-> OrText(email[w].subject, <<"(No subject)">>),
     snippet |-> OrStr(email[w].body_preview, ""),
     from_address |-> email[w].from_address,
     from_name |-> email[w].from_name,
     classification |-> result[w].classification,
     confidence |-> result[w].confidence,
     reason |-> result[w].reason,
     received_at |-> OrStr(email[w].received_datetime, ""),
     conversation_id |-> OrStr(email[w].conversation_id, ""),
     body_text |-> masked[w].body]

\* a call binds only keywords the function declares; Python raises TypeError otherwise
Binds(kwargs, params) == DOMAIN kwargs \subseteq params

\* entry.py 238-269: the save_email call and, after an insert, save_llm_usage
SaveEmail(w) ==
    /\ pc[w] = "save"
    /\ LET kw == SaveEmailKwargs(w)
           bound == Binds(kw, save_email_params)
           r == save_email(store, kw, {})
           out == IF ~bound THEN "TypeError" ELSE IF r.raised THEN "unique" ELSE "persisted"
           token_usage == result[w].token_usage
           cs == Append(calls[w], Call("save_email", out))
                 \o (IF bound /\ ~r.raised /\ token_usage.present
                     THEN <<Call("save_llm_usage", "ok")>> ELSE <<>>)
       IN  /\ Finish(w, out, cs)
           /\ store' = IF bound /\ ~r.raised THEN r.db ELSE store
           /\ usage' = IF bound /\ ~r.raised /\ token_usage.present
                       THEN save_llm_usage(usage, UsageRecord(r.row_id, token_usage))
                       ELSE usage
    /\ UNCHANGED <<categories, req, cur, mid, resp, probe, cron, admin, provider, timeline>>

\* the response is returned and the invocation is over; nothing of it remains
Return(w) ==
    /\ pc[w] = "done"
    /\ pc' = [pc EXCEPT ![w] = "idle"]
    /\ idx' = [idx EXCEPT ![w] = 0]
    /\ cur' = [cur EXCEPT ![w] = NoEntry]
    /\ mid' = [mid EXCEPT ![w] = Null]
    /\ calls' = [calls EXCEPT ![w] = <<>>]
    /\ runs' = [runs EXCEPT ![w] = <<>>]
    /\ resp' = [resp EXCEPT ![w] = NoResponse]
    /\ UNCHANGED <<store, usage, categories, req, email, masked, result, probe, cron, admin, provider, timeline>>

Step(w, env) ==
    \/ Receive(w, env)
    \/ Return(w)
    \/ Respond(w)
    \/ Examine(w, env)
    \/ ExistsCheck(w, env)
    \/ GetAccessToken(w, env)
    \/ GetEmailById(w, env)
    \/ MaskEmailContent(w, env)
    \/ ClassifyEmail(w, env)
    \/ ApplyCategory(w, env)
    \/ SaveEmail(w)

\* one invocation at a time, any number of them one after another
Next == Step("w1", FullEnv)

Spec == Init /\ [][Next]_vars

\* two invocations at once
NextRace == \E w \in Workers : Step(w, CalmEnv)

SpecRace == Init /\ [][NextRace]_vars

(***************************************************************************)
(* An external service that never answers.  Every external call is an      *)
(* awaited fetch (or D1 statement) made without a timeout: presidio.py     *)
(* 62-72 passes "signal": None and never reads timeout_ms of its           *)
(* configuration, classifier.py 62-71 and msgraph.py 52-60, 79-84, 116-127 *)
(* pass no signal, database.py 46-48 and 96-112 await D1.  The await then  *)
(* never resumes, and the code has no step that takes the invocation on.   *)
(***************************************************************************)
\* the call awaited at a position of _process_email
AwaitedCall(p) ==
    CASE p = "exists" -> "email_exists"
      [] p = "token" -> "get_access_token"
      [] p = "fetch" -> "get_email_by_id"
      [] p = "mask" -> "mask_email_content"
      [] p = "classify" -> "classify_email"
      [] p = "category" -> "apply_category_to_email"
      [] p = "save" -> "save_email"
      [] OTHER -> "none"

NeverAnswers(w) ==
    /\ AwaitedCall(pc[w]) # "none"
    /\ calls' = [calls EXCEPT ![w] = Append(@, Call(AwaitedCall(pc[w]), "pending"))]
    /\ pc' = [pc EXCEPT ![w] = "awaiting"]
    /\ UNCHANGED <<store, usage, categories, req, idx, cur, mid, email, masked, result,
                   runs, resp, probe, cron, admin, provider, timeline>>

NextAwait ==
    \/ Step("w1", CalmEnv)
    \/ NeverAnswers("w1")

\* a step of the invocation from a position other than the redaction call
StepElsewhere == pc["w1"] # "mask" /\ NextAwait

\* the runtime keeps running an invocation that can take a step: a step taken
\* whenever one stays possible, and the redaction call not left standing (it is
\* answered, or it is one that never answers)
SpecAwait ==
    /\ Init
    /\ [][NextAwait]_vars
    /\ WF_vars(StepElsewhere)
    /\ []<>(pc["w1"] # "mask")

(***************************************************************************)
(* Single applications of the pure functions.                              *)
(***************************************************************************)
pipeline == <<store, usage, categories, pc, req, idx, cur, mid, email, masked, result,
              calls, runs, resp>>

InitClassify ==
    /\ InitIdle
    /\ probe \in {[fn |-> "classify_email", in |-> r, out |-> Raise, done |-> FALSE] :
                    r \in LLMReplies}

ApplyClassify ==
    /\ probe.fn = "classify_email"
    /\ ~probe.done
    /\ probe' = [probe EXCEPT !.out = classify_email(probe.in), !.done = TRUE]
    /\ UNCHANGED <<pipeline, cron, admin, provider, timeline>>

SpecClassify == InitClassify /\ [][ApplyClassify]_vars

NoMaskResult ==
    [masked_text |-> <<>>, original_text |-> <<>>, entities_found |-> 0,
     entities_masked |-> 0, success |-> FALSE, analyzed |-> FALSE, anonymized |-> FALSE,
     sent |-> <<>>, sent_text |-> <<>>]

InitMask ==
    /\ InitIdle
    /\ probe \in {[fn |-> "mask_pii", in |-> i, out |-> NoMaskResult, done |-> FALSE] :
                    i \in MaskInputs}

ApplyMask ==
    /\ probe.fn = "mask_pii"
    /\ ~probe.done
    /\ probe' = [probe EXCEPT !.out = mask_pii(probe.in.text, probe.in.an, probe.in.anoOut),
                              !.done = TRUE]
    /\ UNCHANGED <<pipeline, cron, admin, provider, timeline>>

SpecMask == InitMask /\ [][ApplyMask]_vars

(***************************************************************************)
(* entry.py 398-433: scheduled, the cron trigger.  The listing of           *)
(* list_subscriptions is a sequence of [id]; id is "" when the provider     *)
(* sent none and Null when it sent null.  A call is [op, id, out].          *)
(***************************************************************************)
MaxSubs == 3
SubIds == {"s1", "s2", "", Null}
Listings == UNION {[1..n -> {[id |-> x] : x \in SubIds}] : n \in 0..MaxSubs}
RenewOutcomes == {"ok", "nonok", "throw"}

\* the bearer tokens the token endpoint may issue; each exchange may issue another
AccessTokens == {"t1", "t2"}

CronCall(op, id, out) == [op |-> op, id |-> id, out |-> out]

\* entry.py 398-404: the trigger fires and the handler starts
CronTrigger ==
    /\ cron.pc \in {"idle", "done"}
    /\ cron' = [CronIdle EXCEPT !.pc = "token"]
    /\ UNCHANGED <<pipeline, probe, admin, provider, timeline>>

\* entry.py 405-409: get_access_token; an exception goes to the handler of 432
CronToken ==
    /\ cron.pc = "token"
    /\ \/ cron' = [cron EXCEPT !.pc = "done",
                               !.calls = Append(@, CronCall("get_access_token", "", "fail"))]
       \/ \E t \in AccessTokens :
            cron' = [cron EXCEPT !.pc = "list", !.access_token = t,
                                 !.calls = Append(@, CronCall("get_access_token", "", "ok"))]
    /\ UNCHANGED <<pipeline, probe, admin, provider, timeline>>

\* as CronList, but a listing that failed is taken for an answered one
CronListIgnoresFailure ==
    /\ cron.pc = "list"
    /\ \E subs \in Listings, o \in {"ok", "fail"} :
            cron' = [cron EXCEPT !.pc = "loop", !.subscriptions = subs, !.i = 0,
                                 !.renewed_count = 0,
                                 !.used = Append(@, cron.access_token),
                                 !.calls = Append(@, CronCall("list_subscriptions", "", o))]
    /\ UNCHANGED <<pipeline, probe, admin, provider, timeline>>

\* entry.py 411-415, msgraph.py 238-266: list_subscriptions with the token of
\* 405; it raises when the answer is not ok, and the handler of 432 ends the run
CronList ==
    /\ cron.pc = "list"
    /\ \/ cron' = [cron EXCEPT !.pc = "done",
                               !.used = Append(@, cron.access_token),
                               !.calls = Append(@, CronCall("list_subscriptions", "", "fail"))]
       \/ \E subs \in Listings :
            cron' = [cron EXCEPT !.pc = "loop", !.subscriptions = subs, !.i = 0,
                                 !.renewed_count = 0,
                                 !.used = Append(@, cron.access_token),
                                 !.calls = Append(@, CronCall("list_subscriptions", "", "ok"))]
    /\ UNCHANGED <<pipeline, probe, admin, provider, timeline>>

\* as CronRenew, but a failed renewal ends the loop over the subscriptions
CronRenewStopsOnFailure ==
    /\ cron.pc = "loop"
    /\ cron.i < Len(cron.subscriptions)
    /\ LET sub_id == cron.subscriptions[cron.i + 1].id
       IN  IF sub_id \in {"", Null}
           THEN cron' = [cron EXCEPT !.i = @ + 1]
           ELSE \E o \in RenewOutcomes :
                  cron' = [cron EXCEPT
                             !.i = @ + 1,
                             !.pc = IF o = "ok" THEN "loop" ELSE "done",
                             !.renewed_count = IF o = "ok" THEN @ + 1 ELSE @,
                             !.used = Append(@, cron.access_token),
                             !.calls = Append(@, CronCall("renew_subscription", sub_id, o))]
    /\ UNCHANGED <<pipeline, probe, admin, provider, timeline>>

\* entry.py 417-427, msgraph.py 186-218: one turn of the loop; renew_subscription
\* raises when fetch rejects or the answer is not ok, and the handler of 425 goes on
CronRenew ==
    /\ cron.pc = "loop"
    /\ cron.i < Len(cron.subscriptions)
    /\ LET sub_id == cron.subscriptions[cron.i + 1].id
       IN  IF sub_id \in {"", Null}
           THEN cron' = [cron EXCEPT !.i = @ + 1]
           ELSE \E o \in RenewOutcomes :
                  cron' = [cron EXCEPT
                             !.i = @ + 1,
                             !.renewed_count = IF o = "ok" THEN @ + 1 ELSE @,
                             !.used = Append(@, cron.access_token),
                             !.calls = Append(@, CronCall("renew_subscription", sub_id, o))]
    /\ UNCHANGED <<pipeline, probe, admin, provider, timeline>>

\* entry.py 429-430: the loop is over and the handler returns
CronDone ==
    /\ cron.pc = "loop"
    /\ cron.i >= Len(cron.subscriptions)
    /\ cron' = [cron EXCEPT !.pc = "done"]
    /\ UNCHANGED <<pipeline, probe, admin, provider, timeline>>

InitCron ==
    /\ InitIdle
    /\ probe = [fn |-> "none"]

NextCron ==
    \/ CronTrigger
    \/ CronToken
    \/ CronList
    \/ CronRenew
    \/ CronDone

SpecCron == InitCron /\ [][NextCron]_vars

(***************************************************************************)
(* One subscription followed in time, in minutes.  It is created at time 0 *)
(* (msgraph.py 134-183) and the cron trigger fires every period minutes,   *)
(* the first time at some offset; a run of scheduled takes no time at this *)
(* scale.  The provider keeps the subscription until its expiration and    *)
(* grants the expiration a renewal asks for.                               *)
(***************************************************************************)
MaxTime == 20000
expiration_minutes == 4230
Periods == {1440, 4229, 4230, 4320}
FirstFires(period) == {0, 1, 720, period}

\* as RenewExpiration, but the renewal asks for one hour
RenewExpirationOneHour(now) == now + 60

\* msgraph.py 190-195: datetime.now(timezone.utc) + timedelta(minutes=4230)
RenewExpiration(now) == now + expiration_minutes

InitRenewal ==
    /\ store = {}
    /\ InitHandlers
    /\ probe = [fn |-> "none"]
    /\ timeline \in {[now |-> 0, period |-> p, next_fire |-> f,
                      expires |-> expiration_minutes, failed |-> FALSE, renewed |-> 0] :
                        p \in Periods, f \in UNION {FirstFires(q) : q \in Periods}}
    /\ timeline.next_fire \in FirstFires(timeline.period)

\* time passes until the trigger is due
Advance ==
    /\ timeline.now < timeline.next_fire
    /\ timeline.next_fire <= MaxTime
    /\ timeline' = [timeline EXCEPT !.now = timeline.next_fire]
    /\ UNCHANGED <<pipeline, probe, cron, admin, provider>>

\* entry.py 398-433 at the time the trigger is due: the run renews the subscription
\* when the listing holds it (it has not expired) and nothing fails
Fire ==
    /\ timeline.period > 0
    /\ timeline.now = timeline.next_fire
    /\ \E o \in {"ok", "fail"} :
        LET listed == timeline.now < timeline.expires
        IN  timeline' =
              [timeline EXCEPT
                 !.next_fire = timeline.now + timeline.period,
                 !.failed = @ \/ (listed /\ o = "fail"),
                 !.renewed = IF listed /\ o = "ok" THEN @ + 1 ELSE @,
                 !.expires = IF listed /\ o = "ok" THEN RenewExpiration(timeline.now)
                             ELSE @]
    /\ UNCHANGED <<pipeline, probe, cron, admin, provider>>

NextRenewal ==
    \/ Advance
    \/ Fire

SpecRenewal == InitRenewal /\ [][NextRenewal]_vars

(***************************************************************************)
(* entry.py 295-356: the management endpoints POST and DELETE              *)
(* /subscriptions.  A response is [status, kind, detail, upstream, text]:  *)
(* kind "ok" / "failed" is the member status of the body and detail the    *)
(* subscription concerned; kind "error" is a body {"error": ...}, detail   *)
(* telling which message it is, upstream and text the provider status and  *)
(* the provider body the message quotes (NoKey when it quotes none).       *)
(***************************************************************************)
MaxCreated == 2
CreatedIds == <<"n1", "n2", "n3", "n4">>
AdminRequests ==
    {[op |-> "create", body |-> b, arg |-> NoKey] : b \in {"unparseable", "notobject"}}
    \cup {[op |-> "create", body |-> "object", arg |-> a] : a \in {NoKey, Null, "", "https://w"}}
    \cup {[op |-> "delete", body |-> b, arg |-> NoKey] : b \in {"unparseable", "notobject"}}
    \cup {[op |-> "delete", body |-> "object", arg |-> a] :
            a \in {NoKey, Null, "", "s1", "n1", "gone"}}

\* how the provider may answer a call: [out, status, text]
ProviderOk == [out |-> "ok", status |-> "200", text |-> "body"]
ProviderRejections ==
    {[out |-> "nonok", status |-> st, text |-> "denied"] : st \in {"403", "404"}}
ProviderThrow == [out |-> "throw", status |-> "0", text |-> "network"]

AdminCall(op, arg, out) == [op |-> op, arg |-> arg, out |-> out]

\* the request goes on to the token exchange whatever its body holds
AdminReceiveUnvalidated ==
    /\ admin.pc = "idle"
    /\ \E r \in AdminRequests :
        admin' = [pc |-> "token", req |-> r, calls |-> <<>>, resp |-> NoAdminResponse]
    /\ UNCHANGED <<pipeline, probe, cron, provider, timeline>>

\* entry.py 76-83, 297-306 and 332-341: the request is routed, its body read and
\* its required member checked
AdminReceive ==
    /\ admin.pc = "idle"
    /\ \E r \in AdminRequests :
        admin' =
          IF r.body # "object"
          THEN [pc |-> "done", req |-> r, calls |-> <<>>,
                resp |-> AdminResponse(500, "error", "exception", NoKey, NoKey)]
          ELSE IF r.arg \in {NoKey, Null, ""}
          THEN [pc |-> "done", req |-> r, calls |-> <<>>,
                resp |-> AdminResponse(400, "error",
                                       IF r.op = "create" THEN "webhook_url required in body"
                                       ELSE "subscription_id required in body",
                                       NoKey, NoKey)]
          ELSE [pc |-> "token", req |-> r, calls |-> <<>>, resp |-> NoAdminResponse]
    /\ UNCHANGED <<pipeline, probe, cron, provider, timeline>>

\* entry.py 308-312 and 343-347, msgraph.py 40-68: get_access_token raises with
\* the status and the body of the token endpoint
AdminToken ==
    /\ admin.pc = "token"
    /\ \E a \in {ProviderOk, ProviderThrow} \cup ProviderRejections :
        admin' =
          [admin EXCEPT
             !.calls = Append(@, AdminCall("get_access_token", "", a.out)),
             !.pc = IF a.out = "ok" THEN "call" ELSE "done",
             !.resp = IF a.out = "ok" THEN @
                      ELSE IF a.out = "throw"
                      THEN AdminResponse(500, "error", "exception", NoKey, NoKey)
                      ELSE AdminResponse(500, "error", "Failed to get access token",
                                         a.status, a.text)]
    /\ UNCHANGED <<pipeline, probe, cron, provider, timeline>>

\* as create_subscription, but updates of messages are subscribed to as well
create_subscription_with_updates(user_email, webhook_url, client_state) ==
    [changeType |-> {"created", "updated"},
     notificationUrl |-> webhook_url,
     resource |-> <<"users", "/", user_email, "/", "mailFolders", "/", "inbox", "/", "messages">>,
     clientState |-> client_state]

\* msgraph.py 152-158: the subscription the provider is asked for; changeType is
\* the set of the change types named
create_subscription(user_email, webhook_url, client_state) ==
    [changeType |-> {"created"},
     notificationUrl |-> webhook_url,
     resource |-> <<"users", "/", user_email, "/", "mailFolders", "/", "inbox", "/", "messages">>,
     clientState |-> client_state]

\* the create call with what it asked for
CreateCall(payload, out) ==
    [op |-> "create_subscription", arg |-> payload.notificationUrl, out |-> out,
     payload |-> payload]

\* entry.py 314-329, msgraph.py 134-183: create_subscription raises on an answer
\* that is not ok, and the handler of 328 turns the exception into a 500
AdminCreate ==
    /\ admin.pc = "call"
    /\ admin.req.op = "create"
    /\ \E a \in {ProviderOk, ProviderThrow} \cup ProviderRejections :
        LET free == {k \in 1..MaxCreated : CreatedIds[k] \notin provider}
            new == CreatedIds[CHOOSE k \in free : \A h \in free : k <= h]
        IN  /\ a.out = "ok" => free # {}
            /\ provider' = IF a.out = "ok" THEN provider \cup {new} ELSE provider
            /\ admin' =
                [admin EXCEPT
                   !.calls = Append(@, CreateCall(create_subscription("u", admin.req.arg,
                                                                      WEBHOOK_VALIDATION_TOKEN),
                                                  a.out)),
                   !.pc = "done",
                   !.resp = IF a.out = "ok"
                            THEN AdminResponse(200, "ok", new, NoKey, NoKey)
                            ELSE IF a.out = "throw"
                            THEN AdminResponse(500, "error", "exception", NoKey, NoKey)
                            ELSE AdminResponse(500, "error", "Failed to create subscription",
                                               a.status, a.text)]
    /\ UNCHANGED <<pipeline, probe, cron, timeline>>

\* entry.py 349-356, msgraph.py 221-235: delete_subscription returns response.ok and
\* the endpoint answers with the member status "ok" or "failed"
AdminDelete ==
    /\ admin.pc = "call"
    /\ admin.req.op = "delete"
    /\ \E a \in {ProviderOk, ProviderThrow} \cup ProviderRejections :
        /\ a.out = "ok" => admin.req.arg \in provider
        /\ (a.out = "nonok" /\ admin.req.arg \notin provider) => a.status = "404"
        /\ provider' = IF a.out = "ok" THEN provider \ {admin.req.arg} ELSE provider
        /\ admin' =
            [admin EXCEPT
               !.calls = Append(@, AdminCall("delete_subscription", admin.req.arg, a.out)),
               !.pc = "done",
               !.resp = IF a.out = "throw"
                        THEN AdminResponse(500, "error", "exception", NoKey, NoKey)
                        ELSE AdminResponse(200, IF a.out = "ok" THEN "ok" ELSE "failed",
                                           admin.req.arg, NoKey, NoKey)]
    /\ UNCHANGED <<pipeline, probe, cron, timeline>>

\* the response is returned
AdminReturn ==
    /\ admin.pc = "done"
    /\ admin' = [admin EXCEPT !.pc = "idle"]
    /\ UNCHANGED <<pipeline, probe, cron, provider, timeline>>

InitAdmin ==
    /\ InitIdle
    /\ probe = [fn |-> "none"]

NextAdmin ==
    \/ AdminReceive
    \/ AdminToken
    \/ AdminCreate
    \/ AdminDelete
    \/ AdminReturn

SpecAdmin == InitAdmin /\ [][NextAdmin]_vars

(***************************************************************************)
(* database.py called as its own tests call it: save_email with the        *)
(* keywords it declares, an insert being in flight between its call and    *)
(* its completion, and email_exists asked at any moment.                   *)
(***************************************************************************)
\* the classification results a caller may hand to save_email
StoreResults == {r \in {classify_email(reply) : reply \in PipelineReplies} : r.kind = "return"}

\* the keywords of a call that binds: those of entry.py 240-252, without body_text
DirectKwargs(w) ==
    [k \in (DOMAIN SaveEmailKwargs(w)) \ {"body_text"} |-> SaveEmailKwargs(w)[k]]

InitStore ==
    /\ InitIdle
    /\ probe = [fn |-> "email_exists", in |-> "m1", out |-> FALSE, done |-> FALSE]

\* database.py 68-94: save_email has been called, its INSERT has not run yet
BeginInsert(w) ==
    /\ pc[w] = "idle"
    /\ \E m \in MsgIds : \E r \in StoreResults :
        /\ mid' = [mid EXCEPT ![w] = m]
        /\ email' = [email EXCEPT ![w] = Mailbox(m)]
        /\ result' = [result EXCEPT ![w] = r]
    /\ pc' = [pc EXCEPT ![w] = "save"]
    /\ UNCHANGED <<store, usage, categories, req, idx, cur, masked, calls, runs, resp, probe, cron, admin, provider, timeline>>

\* database.py 96-115: the INSERT runs and commits, or is refused
CommitInsert(w) ==
    /\ pc[w] = "save"
    /\ Binds(DirectKwargs(w), save_email_params)
    /\ LET r == save_email(store, DirectKwargs(w), {})
       IN  /\ store' = r.db
           /\ calls' = [calls EXCEPT ![w] =
                          <<Call("save_email", IF r.raised THEN "unique" ELSE "persisted")>>]
    /\ pc' = [pc EXCEPT ![w] = "idle"]
    /\ mid' = [mid EXCEPT ![w] = Null]
    /\ email' = [email EXCEPT ![w] = NoEmail]
    /\ result' = [result EXCEPT ![w] = Raise]
    /\ UNCHANGED <<usage, categories, req, idx, cur, masked, runs, resp, probe, cron, admin, provider, timeline>>

\* database.py 42-65: email_exists is asked about an id
QueryExists ==
    /\ \E m \in MsgIds :
        probe' = [fn |-> "email_exists", in |-> m, out |-> email_exists(store, m),
                  done |-> TRUE]
    /\ UNCHANGED <<pipeline, cron, admin, provider, timeline>>

NextStore ==
    \/ \E w \in Workers : BeginInsert(w)
    \/ \E w \in Workers : CommitInsert(w)
    \/ QueryExists

SpecStore == InitStore /\ [][NextStore]_vars

(***************************************************************************)
(* entry.py 145-162 on resource paths built from their segments.           *)
(***************************************************************************)
MaxSegs == 4
Segments == {"", "messages", "Messages", "MESSAGES", "inbox", "m1"}
SegmentLists == UNION {[1..n -> Segments] : n \in 1..MaxSegs}

\* "/".join(segs), as the atoms of a path
RECURSIVE JoinPath(_)
JoinPath(segs) ==
    LET one == IF Head(segs) = "" THEN <<>> ELSE <<Head(segs)>>
    IN  IF Len(segs) = 1 THEN one ELSE one \o <<"/">> \o JoinPath(Tail(segs))

InitPath ==
    /\ InitIdle
    /\ probe \in {[fn |-> "extract", in |-> segs, out |-> Null, done |-> FALSE] :
                    segs \in SegmentLists}

ApplyPath ==
    /\ probe.fn = "extract"
    /\ ~probe.done
    /\ probe' = [probe EXCEPT !.out = HandedId(JoinPath(probe.in)), !.done = TRUE]
    /\ UNCHANGED <<pipeline, cron, admin, provider, timeline>>

SpecPath == InitPath /\ [][ApplyPath]_vars

(***************************************************************************)
(* save_email called once with some of its arguments None, as              *)
(* test_save_email_handles_none_values calls it, on an empty table or on   *)
(* one that holds a row.                                                   *)
(***************************************************************************)
\* the parameters the test passes as None
NoneFields ==
    {"subject", "snippet", "from_address", "from_name", "reason", "received_at",
     "conversation_id"}

\* the arguments of a call for the message m
SaveArgs(m) ==
    LET e == Mailbox(m)
        r == classify_email(ValidReply)
    IN  [message_id |-> m, subject |-> e.subject, snippet |-> e.body_preview,
         from_address |-> e.from_address, from_name |-> e.from_name,
         classification |-> r.classification, confidence |-> r.confidence,
         reason |-> r.reason, received_at |-> e.received_datetime,
         conversation_id |-> e.conversation_id]

NoSaveOut == [raised |-> FALSE, why |-> "", row_id |-> 0]

InitSave ==
    /\ InitHandlers
    /\ timeline = NoTimeline
    /\ store \in {{}, save_email({}, SaveArgs("m2"), {}).db}
    /\ probe \in {[fn |-> "save_email", in |-> [m |-> m, none |-> none], existed |-> FALSE,
                   out |-> NoSaveOut, done |-> FALSE] :
                    m \in MsgIds, none \in SUBSET NoneFields}

ApplySave ==
    /\ probe.fn = "save_email"
    /\ ~probe.done
    /\ LET r == save_email(store, SaveArgs(probe.in.m), probe.in.none)
       IN  /\ store' = r.db
           /\ probe' = [probe EXCEPT
                          !.existed = email_exists(store, probe.in.m),
                          !.out = [raised |-> r.raised, why |-> r.why, row_id |-> r.row_id],
                          !.done = TRUE]
    /\ UNCHANGED <<usage, categories, pc, req, idx, cur, mid, email, masked, result,
                   calls, runs, resp, cron, admin, provider, timeline>>

SpecSave == InitSave /\ [][ApplySave]_vars

(***************************************************************************)
(* entry.py 238-267 from the point where save_email is entered: the insert *)
(* and, after it, the usage insert, for a save_email call that binds.      *)
(***************************************************************************)
\* as InsertAndUsage, but a usage row is written for every inserted row
InsertAndUsageUnguarded(w) ==
    /\ pc[w] = "save"
    /\ LET r == save_email(store, DirectKwargs(w), {})
       IN  /\ store' = r.db
           /\ usage' = IF ~r.raised
                       THEN save_llm_usage(usage, UsageRecord(r.row_id, result[w].token_usage))
                       ELSE usage
           /\ calls' = [calls EXCEPT ![w] = <<Call("save_email", "persisted")>>]
    /\ pc' = [pc EXCEPT ![w] = "idle"]
    /\ mid' = [mid EXCEPT ![w] = Null]
    /\ email' = [email EXCEPT ![w] = NoEmail]
    /\ result' = [result EXCEPT ![w] = Raise]
    /\ UNCHANGED <<categories, req, idx, cur, masked, runs, resp, probe, cron, admin, provider, timeline>>

\* entry.py 240-267: email_id = save_email(...); an exception of the insert skips
\* the rest; save_llm_usage is called when token_usage and email_id are truthy
InsertAndUsage(w) ==
    /\ pc[w] = "save"
    /\ Binds(DirectKwargs(w), save_email_params)
    /\ LET r == save_email(store, DirectKwargs(w), {})
           token_usage == result[w].token_usage
           saves == ~r.raised /\ token_usage.present /\ r.row_id # 0
       IN  /\ store' = r.db
           /\ usage' = IF saves
                       THEN save_llm_usage(usage, UsageRecord(r.row_id, token_usage))
                       ELSE usage
           /\ calls' = [calls EXCEPT ![w] =
                          <<Call("save_email", IF r.raised THEN "unique" ELSE "persisted")>>
                          \o (IF saves THEN <<Call("save_llm_usage", "ok")>> ELSE <<>>)]
    /\ pc' = [pc EXCEPT ![w] = "idle"]
    /\ mid' = [mid EXCEPT ![w] = Null]
    /\ email' = [email EXCEPT ![w] = NoEmail]
    /\ result' = [result EXCEPT ![w] = Raise]
    /\ UNCHANGED <<categories, req, idx, cur, masked, runs, resp, probe, cron, admin, provider, timeline>>

NextTail ==
    \/ \E w \in Workers : BeginInsert(w)
    \/ \E w \in Workers : InsertAndUsage(w)

SpecTail == InitStore /\ [][NextTail]_vars

(***************************************************************************)
(* The claims.                                                             *)
(***************************************************************************)
Rows(m) == {row \in store : row.message_id = m}
Outs(cs, op) == {cs[k].out : k \in {j \in 1..Len(cs) : cs[j].op = op}}
Returned(w) == pc[w] \in {"loop", "done"}

\* C1: when _process_email is invoked twice in sequence for the same message id
\* and the first invocation got as far as its save_email call, there is exactly
\* one row for the id and the second invocation made no call besides the
\* existence check.
C1_Idempotent ==
    \A w \in Workers : \A k \in 1..(Len(runs[w]) - 1) :
        (runs[w][k].mid = runs[w][k + 1].mid /\ "save_email" \in runs[w][k].ops)
        => /\ Cardinality(Rows(runs[w][k].mid)) = 1
           /\ runs[w][k + 1].ops \subseteq {"email_exists"}

\* C2: no message id ever has two rows, and when two invocations have both
\* passed the existence check for one id and both made their save_email call,
\* one insert was accepted and the other was refused by the UNIQUE constraint,
\* neither ending its invocation otherwise than with 202.
C2_RaceLeavesOneRow ==
    /\ \A m \in MsgIds : Cardinality(Rows(m)) <= 1
    /\ \A w \in Workers : resp[w].status \in {0, 200, 202, 400}
    /\ \A w1 \in Workers : \A w2 \in Workers \ {w1} :
        (/\ runs[w1] # <<>>
         /\ runs[w2] # <<>>
         /\ runs[w1][Len(runs[w1])].mid = runs[w2][Len(runs[w2])].mid
         /\ "save_email" \in runs[w1][Len(runs[w1])].ops
         /\ "save_email" \in runs[w2][Len(runs[w2])].ops)
        => /\ {runs[w1][Len(runs[w1])].end, runs[w2][Len(runs[w2])].end}
                = {"persisted", "unique"}
           /\ Cardinality(Rows(runs[w1][Len(runs[w1])].mid)) = 1

NoToken(w) == req[w].validationToken \in {NoParam, Param(<<>>)}

\* C3: a POST to /webhook without a validationToken is answered with status 202
\* and an empty body and with nothing else, whatever happened while it was handled.
C3_Always202 ==
    \A w \in Workers :
        (req[w].method = "POST" /\ NoToken(w) /\ pc[w] # "idle")
        => /\ resp[w] \in {NoResponse, Response(<<>>, 202)}
           /\ (pc[w] = "done" => resp[w] = Response(<<>>, 202))

\* C3 witness: a POST is answered 202 although the message fetch of one of its
\* entries failed.
C3_Witness ==
    \E w \in Workers :
        /\ pc[w] = "done" /\ req[w].method = "POST" /\ NoToken(w)
        /\ resp[w] = Response(<<>>, 202)
        /\ \E k \in 1..Len(runs[w]) : runs[w][k].end = "fetch"

\* C4: every result classify_email returns has a classification of the
\* configured tag set.
C4_TagSetClosure ==
    (probe.done /\ probe.out.kind = "return") => probe.out.classification \in valid_tags

ParsedOf(reply) == JsonLoads(CleanCompletion(reply.text))
InvalidTagReply(reply) ==
    /\ reply.http = "ok"
    /\ reply.shape = "text"
    /\ ParsedOf(reply).kind = "object"
    /\ ParsedOf(reply).cls \notin valid_tags
    /\ ParsedOf(reply).conf.t = "num"

\* C5: when the object parsed from the completion has a classification outside
\* the tag set and a numeric confidence c, classify_email returns the tag
\* "general" with confidence max(0.3, c * 0.5): 0.45 for 0.9, and 0.3 for every
\* c up to 0.6.
C5_Attenuation ==
    (probe.done /\ InvalidTagReply(probe.in))
    => LET c == ParsedOf(probe.in).conf.v
       IN  /\ probe.out.kind = "return"
           /\ probe.out.classification = "general"
           /\ 2 * probe.out.confidence = Max(120, c)
           /\ (c = 180 => probe.out.confidence = 90)
           /\ (c <= 120 => probe.out.confidence = 60)

\* C5 witness: an unknown tag came with confidence 0.9 and 0.45 is returned.
C5_Witness ==
    /\ probe.done
    /\ InvalidTagReply(probe.in)
    /\ ParsedOf(probe.in).cls = "invalid_tag"
    /\ ParsedOf(probe.in).conf = Percent(90)
    /\ probe.out.confidence = 90

\* C6: when the text is empty, or the analyzer is unreachable or answers with a
\* non-success status, or the anonymizer is called and is unreachable or answers
\* with a non-success status, mask_pii returns the input text and success = false.
C6_SoftFailReported ==
    (/\ probe.done
     /\ \/ probe.in.text = <<>>
        \/ probe.in.an.out \in {"throw", "nonok"}
        \/ (probe.out.anonymized /\ probe.in.anoOut \in {"throw", "nonok"}))
    => /\ probe.out.masked_text = probe.in.text
       /\ probe.out.success = FALSE

\* C7: when the redaction services were unreachable during a procedure in which
\* the fetch succeeded, the LLM answered and save_email was called, the
\* classification call was made on the fetched subject and body and the
\* procedure ended with a row for its message id.
C7_RedactionDownStillPersists ==
    \A w \in Workers :
        (/\ Returned(w)
         /\ "unreachable" \in Outs(calls[w], "mask_email_content")
         /\ "save_email" \in Ops(calls[w]))
        => /\ "classify_email" \in Ops(calls[w])
           /\ Rows(mid[w]) # {}

AbortedEarly(w) ==
    \/ "fail" \in Outs(calls[w], "get_access_token")
    \/ "fail" \in Outs(calls[w], "get_email_by_id")

\* C8: after a failed token exchange or a failed message fetch the procedure has
\* stopped: it made no redaction, classification, category or save call, and no
\* row and no usage record was written for its message id.
C8_TokenOrFetchFailureAborts ==
    \A w \in Workers :
        AbortedEarly(w)
        => /\ Returned(w)
           /\ Ops(calls[w]) \cap {"mask_email_content", "classify_email",
                                  "apply_category_to_email", "save_email",
                                  "save_llm_usage"} = {}
           /\ calls[w][Len(calls[w])].out = "fail"
           /\ Rows(mid[w]) = {}
           /\ usage = {}

\* C8 witness: a message fetch has failed.
C8_Witness ==
    \E w \in Workers :
        /\ "ok" \in Outs(calls[w], "get_access_token")
        /\ "fail" \in Outs(calls[w], "get_email_by_id")

\* C9: after a category write that returned false or raised, the procedure goes
\* on and inserts the row with the classification it computed.
C9_CategoryFailureStillPersists ==
    \A w \in Workers :
        (Returned(w) /\ Outs(calls[w], "apply_category_to_email") \cap {"false", "raise"} # {})
        => /\ "save_email" \in Ops(calls[w])
           /\ Rows(mid[w]) # {}

\* C10: an entry whose clientState is absent or differs from the configured
\* secret is never handed to _process_email: no call is made for it, and the
\* procedure has run for fewer entries than the loop has examined.
C10_ClientStateRejected ==
    \A w \in Workers :
        (cur[w].kind = "object" /\ cur[w].clientState # expected_state)
        => /\ Returned(w)
           /\ calls[w] = <<>>
           /\ Len(runs[w]) < idx[w]

\* C10 witness: an entry that is otherwise valid (created, with a message id)
\* but carries no clientState has been examined.
C10_Witness ==
    \E w \in Workers :
        /\ cur[w].kind = "object"
        /\ cur[w].clientState = NoKey
        /\ cur[w].changeType = "created"
        /\ ExtractMessageId(cur[w].resource.path) = "m1"
        /\ idx[w] = 1
        /\ pc[w] = "loop"

\* C11: an entry whose changeType is not "created" (updated, deleted or missing),
\* even with the right clientState, is never handed to _process_email: no call is
\* made for it and the procedure has run for fewer entries than were examined.
C11_ChangeTypeRejected ==
    \A w \in Workers :
        (cur[w].kind = "object" /\ cur[w].changeType # "created")
        => /\ Returned(w)
           /\ calls[w] = <<>>
           /\ Len(runs[w]) < idx[w]

\* C11 witness: an entry with the right clientState and a message id, but of
\* changeType "updated", has been examined and passed over.
C11_Witness ==
    \E w \in Workers :
        /\ cur[w].kind = "object"
        /\ cur[w].clientState = expected_state
        /\ cur[w].changeType = "updated"
        /\ ExtractMessageId(cur[w].resource.path) = "m1"
        /\ idx[w] = 1
        /\ pc[w] = "loop"

\* C12: a GET or POST to /webhook whose validationToken parameter is not empty is
\* answered with status 200 and the URL-decoded token as body (percent escapes and
\* "+" decoded, everything else as sent), and no entry of its body is examined or
\* processed.
C12_ValidationEcho ==
    \A w \in Workers :
        (pc[w] # "idle" /\ req[w].validationToken.raw # <<>>)
        => LET raw == req[w].validationToken.raw
           IN  /\ pc[w] = "done"
               /\ resp[w].status = 200
               /\ Len(resp[w].body) = Len(raw)
               /\ \A j \in 1..Len(raw) :
                    resp[w].body[j] =
                        CASE raw[j] \in {"+", "%20"} -> " "
                          [] raw[j] = "%2B" -> "+"
                          [] raw[j] = "%2F" -> "/"
                          [] raw[j] = "%3D" -> "="
                          [] raw[j] = "%3A" -> ":"
                          [] OTHER -> raw[j]
               /\ (raw = <<"XYZ">> => resp[w].body = <<"XYZ">>)
               /\ idx[w] = 0 /\ cur[w] = NoEntry /\ runs[w] = <<>> /\ calls[w] = <<>>

\* C12 witness: a POST that carries two notification entries and an escaped token
\* has been answered with the decoded token.
C12_Witness ==
    \E w \in Workers :
        /\ pc[w] = "done"
        /\ req[w].method = "POST" /\ req[w].body = "list" /\ req[w].n = 2
        /\ req[w].validationToken.raw =
             <<"token", "%2B", "with", "%2F", "special", "%3D", "chars">>
        /\ resp[w] = Response(<<"token", "+", "with", "/", "special", "=", "chars">>, 200)

FailedEnds == {"db", "token", "fetch", "classify", "TypeError", "unique"}

\* C13: an exception inside _process_email (from the existence check, the token
\* exchange, the fetch, the classification or the store) never ends the loop:
\* the procedure has run at most once per examined entry, no response is set
\* while the loop runs, and the loop stops before the last entry only at an entry
\* that itself cannot be read (not an object, or a null resource).
C13_FailureIsolated ==
    \A w \in Workers :
        /\ Len(runs[w]) <= idx[w]
        /\ (pc[w] \notin {"idle", "done"} => resp[w] = NoResponse)
        /\ (pc[w] = "done" /\ req[w].method = "POST" /\ NoToken(w)
              /\ req[w].body \in {"list", "novalue"} /\ idx[w] < req[w].n)
           => (cur[w].kind # "object" \/ cur[w].resource.k = "null")

\* C13 witness: the procedure failed for the first entry (the fetch raised) and
\* ran for the second entry up to its save_email call.
C13_Witness ==
    \E w \in Workers :
        /\ Len(runs[w]) = 2
        /\ runs[w][1].end = "fetch"
        /\ runs[w][1].end \in FailedEnds
        /\ "save_email" \in runs[w][2].ops

\* position j of text begins an address of a trusted domain
TrustedAddressAt(text, j) ==
    /\ j + 1 <= Len(text)
    /\ text[j] \in LocalParts
    /\ LowerAtom(text[j + 1]) \in regent_domains
    /\ ~(j + 2 <= Len(text) /\ text[j + 2] = ".example.com")
Occurs(t, a, b) == \E i \in 1..(Len(t) - 1) : t[i] = a /\ t[i + 1] = b

\* C14: whatever entities the analyzer reports, every address of a trusted domain
\* in the text given to mask_pii is found unchanged in the masked_text returned.
C14_TrustedAddressKept ==
    probe.done
    => \A j \in 1..Len(probe.in.text) :
          TrustedAddressAt(probe.in.text, j)
          => Occurs(probe.out.masked_text, probe.in.text[j], probe.in.text[j + 1])

\* the completion is one JSON object with a valid tag, a numeric confidence and a
\* reason, bare or in one of the wrappings (fence, text before, text after)
WrappedObjectReply(reply, w, c, f, r) ==
    /\ reply.http = "ok"
    /\ reply.shape = "text"
    /\ c \in valid_tags /\ f.t = "num" /\ r # NoKey
    /\ reply.text = Wrap(w, Core(c, f, r))

\* C15: for a completion that is one JSON object with a valid classification, a
\* confidence and a reason, bare, fenced, or with conversational text before or
\* after it, classify_email returns exactly that classification, confidence and
\* reason.
C15_ExtractsWrappedObject ==
    probe.done
    => \A w \in Wrappings \ {"fencednoclose"} : \A c \in ReplyTags :
         \A f \in ReplyConfidences : \A r \in ReplyReasons :
            WrappedObjectReply(probe.in, w, c, f, r)
            => /\ probe.out.kind = "return"
               /\ probe.out.classification = c
               /\ probe.out.confidence = f.v
               /\ probe.out.reason = [k |-> "model", arg |-> r]

\* a successful response with a parse or shape error: candidates or parts missing,
\* a text that is no JSON, a JSON value that is no object, an object that lacks
\* classification or confidence, or whose confidence is no number
ShapeError(reply) ==
    /\ reply.http = "ok"
    /\ \/ reply.shape \in {"nocandidates", "noparts"}
       \/ /\ reply.shape = "text"
          /\ \/ ParsedOf(reply).kind \in {"error", "array"}
             \/ ParsedOf(reply).cls = NoKey
             \/ ParsedOf(reply).conf.t # "num"

\* C16: every parse or shape error of a successful LLM response is caught inside
\* classify_email, which returns classification "general" with confidence 0.0;
\* no exception reaches the caller.
C16_ParseErrorsFallBack ==
    (probe.done /\ ShapeError(probe.in))
    => /\ probe.out.kind = "return"
       /\ probe.out.classification = "general"
       /\ probe.out.confidence = 0

\* C17: when the LLM endpoint answers with a non-success status, classify_email
\* returns classification "general", confidence 0.0, a reason that carries the
\* status, and no token usage (so the caller has nothing to write a usage record
\* from).
C17_HttpFailureFallback ==
    (probe.done /\ probe.in.http = "nonok")
    => /\ probe.out.kind = "return"
       /\ probe.out.classification = "general"
       /\ probe.out.confidence = 0
       /\ probe.out.reason = [k |-> "http", arg |-> probe.in.status]
       /\ probe.out.token_usage.present = FALSE

\* C17 witness: the endpoint answered 500 and the fallback naming 500 was returned.
C17_Witness ==
    /\ probe.done
    /\ probe.in.http = "nonok"
    /\ probe.in.status = "500"
    /\ probe.out.reason.arg = "500"
    /\ probe.out.classification = "general"

\* C18: whenever email_exists is asked about an id, it answers true exactly when
\* a committed row with that message_id is in the store: false for an id never
\* inserted and for one whose insert is still in flight, true once the insert has
\* completed.
C18_ExistsIffCommitted ==
    [][(probe' # probe) => (probe'.out <=> (Rows(probe'.in) # {}))]_vars

\* C18 witness: asked about m1, whose insert has completed, email_exists answered
\* true while the insert of m2 was in flight and m2 had no row.
C18_Witness ==
    /\ probe.done /\ probe.in = "m1" /\ probe.out = TRUE
    /\ Rows("m1") # {}
    /\ Rows("m2") = {}
    /\ \E w \in Workers : pc[w] = "save" /\ mid[w] = "m2"

\* C19: when the procedure for an id ended before an insert completed (an
\* exception at the existence check, the token exchange, the fetch, the
\* classification or the save_email call), no row for the id exists, and the next
\* delivery of the id passes the existence check and runs the procedure again,
\* token exchange and fetch included.
C19_RetryFromScratch ==
    \A w \in Workers :
        /\ (runs[w] # <<>> /\ runs[w][Len(runs[w])].end \in FailedEnds \ {"unique"})
           => Rows(runs[w][Len(runs[w])].mid) = {}
        /\ \A k \in 1..(Len(runs[w]) - 1) :
            (/\ runs[w][k].end \in FailedEnds \ {"unique"}
             /\ runs[w][k + 1].mid = runs[w][k].mid
             /\ runs[w][k + 1].end # "db")
            => /\ {"email_exists", "get_access_token"} \subseteq runs[w][k + 1].ops
               /\ runs[w][k + 1].end # "skipped"
               /\ (runs[w][k + 1].end = "token" \/ "get_email_by_id" \in runs[w][k + 1].ops)

\* C19 witness: the procedure for m1 ended when the classification raised, and
\* the next delivery of m1 fetched the message again and went on to classify it.
C19_Witness ==
    \E w \in Workers :
        /\ Len(runs[w]) = 2
        /\ runs[w][1].mid = "m1" /\ runs[w][2].mid = "m1"
        /\ runs[w][1].end = "classify"
        /\ {"get_email_by_id", "classify_email"} \subseteq runs[w][2].ops

RECURSIVE TruthyIds(_)
TruthyIds(subs) ==
    IF subs = <<>> THEN <<>>
    ELSE IF Head(subs).id \in {"", Null} THEN TruthyIds(Tail(subs))
    ELSE <<Head(subs).id>> \o TruthyIds(Tail(subs))
RECURSIVE RenewedIds(_)
RenewedIds(cs) ==
    IF cs = <<>> THEN <<>>
    ELSE IF Head(cs).op = "renew_subscription" THEN <<Head(cs).id>> \o RenewedIds(Tail(cs))
    ELSE RenewedIds(Tail(cs))

\* C20: in a run of the scheduled handler the renew calls made so far are, in
\* order, one for each listed subscription with a non-empty id the loop has
\* passed, whether earlier renew calls failed or not, and the handler ends only
\* when the loop has passed every listed subscription.
C20_RenewEachOnce ==
    /\ RenewedIds(cron.calls) = TruthyIds(SubSeq(cron.subscriptions, 1, cron.i))
    /\ (cron.pc = "done" => cron.i = Len(cron.subscriptions))

\* C20 witness: three subscriptions were listed, the second without an id; the
\* renewal of the first failed and the third was renewed all the same.
C20_Witness ==
    /\ cron.pc = "done"
    /\ cron.subscriptions = <<[id |-> "s1"], [id |-> ""], [id |-> "s2"]>>
    /\ Len(cron.calls) = 4
    /\ cron.calls[3] = CronCall("renew_subscription", "s1", "nonok")
    /\ cron.calls[4] = CronCall("renew_subscription", "s2", "ok")

\* the provider has rejected the create or delete call of the request
RejectedByProvider ==
    /\ admin.pc = "done"
    /\ admin.calls # <<>>
    /\ admin.calls[Len(admin.calls)].op \in {"create_subscription", "delete_subscription"}
    /\ admin.calls[Len(admin.calls)].out = "nonok"

\* C21: when the provider rejects the create or the delete call of a management
\* request, the response is an error response (status 400 or above, a body with
\* the member error) that carries the status and the body the provider answered.
C21_ProviderErrorSurfaced ==
    RejectedByProvider
    => /\ admin.resp.status >= 400
       /\ admin.resp.kind = "error"
       /\ admin.resp.upstream \in {"403", "404"}
       /\ admin.resp.text = "denied"

\* the members a management request may lack: absent, null or empty
MissingArgs == {NoKey, Null, ""}

\* C22: a create request whose body has no webhook_url and a delete request whose
\* body has no subscription_id (absent, null or empty) is answered 400 at once:
\* no token exchange and no provider call has been made, and the subscriptions
\* of the provider are what they were.
C22_MissingInputRejected ==
    [][(/\ admin.pc = "idle"
        /\ admin'.pc # "idle"
        /\ admin'.req.body = "object"
        /\ admin'.req.arg \in MissingArgs)
       => /\ admin'.pc = "done"
          /\ admin'.resp.status = 400
          /\ admin'.resp.kind = "error"
          /\ admin'.calls = <<>>
          /\ provider' = provider]_vars

C22_Witness ==
    /\ admin.pc = "done"
    /\ admin.req.op = "delete"
    /\ admin.req.arg = NoKey
    /\ admin.resp.status = 400
    /\ admin.calls = <<>>
    /\ provider = {"s1", "n1"}

\* the usage rows of an email row
UsageOf(row) == {u \in usage : u.email_id = row.id}

C24_NoneValuesInserted ==
    (probe.fn = "save_email" /\ probe.done /\ ~probe.existed)
    => /\ ~probe.out.raised
       /\ \E row \in store :
            /\ row.id = probe.out.row_id
            /\ row.message_id = probe.in.m
            /\ row.nulls = {}

\* the spellings of the segment messages
MessagesSpellings == {"messages", "Messages", "MESSAGES"}

\* the positions of the first segment of segs that is messages in any spelling
FirstMessages(segs) ==
    {j \in 1..Len(segs) :
        /\ segs[j] \in MessagesSpellings
        /\ \A i \in 1..(j - 1) : segs[i] \notin MessagesSpellings}

\* C25: for a resource path of any segments, the id _process_email is called
\* with is the segment right after the first segment that is messages in any
\* letter case; when there is no such segment, or it is the last one, or the
\* segment after it is empty, the procedure is not called.
C25_IdFollowsMessages ==
    (probe.fn = "extract" /\ probe.done)
    => \/ /\ \E j \in FirstMessages(probe.in) :
                /\ j + 1 <= Len(probe.in)
                /\ probe.in[j + 1] # ""
                /\ probe.out = probe.in[j + 1]
       \/ /\ probe.out = Null
          /\ \A j \in FirstMessages(probe.in) :
                j = Len(probe.in) \/ probe.in[j + 1] = ""

C25_Witness ==
    /\ probe.fn = "extract"
    /\ probe.done
    /\ probe.in = <<"inbox", "Messages", "m1", "messages">>
    /\ probe.out = "m1"

\* the confidence 1.0, in the unit of the confidences
FullConfidence == 200

\* C26: every result classify_email returns has a confidence of at least 0.0 and
\* at most 1.0, whatever confidence the completion carries.
C26_ConfidenceInUnitInterval ==
    (probe.fn = "classify_email" /\ probe.done /\ probe.out.kind = "return")
    => /\ probe.out.confidence >= 0
       /\ probe.out.confidence <= FullConfidence

\* C27: every webhook invocation that has been received eventually has its
\* response, even when a call to an external service is never answered.
C27_InvocationReturns ==
    [](pc["w1"] # "idle" => <>(pc["w1"] = "done"))

\* C28: whatever an entry of the batch is (malformed or failing), the loop goes
\* on to every entry after it: when the invocation has its response, every entry
\* of the value array has been examined.
C28_EveryEntryExamined ==
    \A w \in Workers :
        (/\ pc[w] = "done"
         /\ req[w].method = "POST"
         /\ NoToken(w)
         /\ req[w].body = "list")
        => idx[w] = req[w].n

\* the calls of _process_email in the order of the code
StepOrder ==
    <<"email_exists", "get_access_token", "get_email_by_id", "mask_email_content",
      "classify_email", "apply_category_to_email", "save_email", "save_llm_usage">>

\* the call c did not do what it was made for
FailedCall(c) ==
    CASE c.op = "email_exists" -> c.out = "raise"
      [] c.op \in {"get_access_token", "get_email_by_id"} -> c.out = "fail"
      [] c.op = "mask_email_content" -> c.out # "up"
      [] c.op = "classify_email" -> c.out # "ok"
      [] c.op = "apply_category_to_email" -> c.out # "true"
      [] c.op = "save_email" -> c.out # "persisted"
      [] OTHER -> FALSE

\* the calls of the procedure were made one by one in the order of StepOrder
InStepOrder(cs) == \A k \in 1..Len(cs) : k <= Len(StepOrder) /\ cs[k].op = StepOrder[k]

\* a call of one of the ops in soft, or a classification answered with a status
\* that is not a success, is the only kind of failed call that was followed by
\* another call
OnlySoftFailuresPassed(cs, soft) ==
    \A k \in 1..(Len(cs) - 1) :
        FailedCall(cs[k])
        => \/ cs[k].op \in soft
           \/ (cs[k].op = "classify_email" /\ cs[k].out = "nonok"
                 /\ "classify_email" \in soft)

\* C29 as stated: the calls are made in the order of the code, and the category
\* write is the only call whose failure is followed by a further call.
C29_OnlyCategoryMayFail ==
    \A w \in Workers :
        /\ InStepOrder(calls[w])
        /\ OnlySoftFailuresPassed(calls[w], {"apply_category_to_email"})

\* C29: within one invocation of _process_email the calls are made one by one in
\* the order existence check, token exchange, fetch, redaction, classification,
\* category write, email insert, usage insert; a failed call is followed by a
\* further call only when it is the redaction, a classification answered with a
\* non-success status, or the category write, and a failed category write is
\* always followed by the insert; an insert is made only after a classification
\* that returned a result.
C29_StepOrder ==
    \A w \in Workers :
        LET cs == calls[w]
        IN  /\ InStepOrder(cs)
            /\ OnlySoftFailuresPassed(cs, {"mask_email_content", "classify_email",
                                           "apply_category_to_email"})
            /\ (Len(cs) = 6 => pc[w] = "save")
            /\ (Len(cs) >= 7 => cs[5].op = "classify_email" /\ cs[5].out # "raise")

C29_Witness ==
    \E w \in Workers :
        /\ Len(calls[w]) = 7
        /\ calls[w][4].out = "unreachable"
        /\ calls[w][5].out = "nonok"
        /\ calls[w][6].out = "raise"
        /\ calls[w][7].op = "save_email"

\* C30: the entries of one batch are handled one after another, so when two
\* entries of a batch name the same message and the procedure got as far as its
\* save_email call for the earlier one, the existence check of the later one
\* (when the store answers it) finds the row: the later run ends skipped, having
\* made no call but email_exists.
C30_DuplicateInBatchSkipped ==
    \A w \in Workers : \A k \in 1..Len(runs[w]) : \A j \in (k + 1)..Len(runs[w]) :
        (/\ runs[w][k].mid = runs[w][j].mid
         /\ "save_email" \in runs[w][k].ops
         /\ runs[w][j].end # "db")
        => /\ runs[w][j].end = "skipped"
           /\ runs[w][j].ops = {"email_exists"}

\* how many calls of op the log cs holds
CallCount(cs, op) == Cardinality({k \in 1..Len(cs) : cs[k].op = op})

\* the calls a run of _process_email may make once
OncePerRun ==
    {"email_exists", "get_access_token", "get_email_by_id", "mask_email_content",
     "classify_email", "apply_category_to_email", "save_email", "save_llm_usage"}

\* C31: a run of _process_email makes each of its calls (token exchange, fetch,
\* LLM call, category write, insert) at most once, and an invocation has run the
\* procedure at most once for each entry it has taken, also while another
\* invocation handles the same message: the LLM calls and the category writes for
\* a message are never more than its accepted deliveries.
C31_OneCallPerDelivery ==
    \A w \in Workers :
        /\ \A op \in OncePerRun : CallCount(calls[w], op) <= 1
        /\ Ops(calls[w]) \subseteq OncePerRun
        /\ Len(runs[w]) <= idx[w]
        /\ idx[w] <= req[w].n

C31_Witness ==
    /\ mid["w1"] = mid["w2"]
    /\ mid["w1"] = "m1"
    /\ \A w \in Workers :
        /\ pc[w] = "save"
        /\ CallCount(calls[w], "classify_email") = 1
        /\ CallCount(calls[w], "apply_category_to_email") = 1

\* the entities the redaction of a fetched text replaces when the services are in
\* state st: those the analyzer finds and the trusted-domain filter keeps, when
\* both services answer
Redacted(text, st) ==
    IF st = "up" THEN filter_regent_emails(text, AnalyzerFinds(text, 0)) ELSE <<>>

\* what the redaction step hands on for a fetched text
RedactionOutput(text, st) ==
    IF Redacted(text, st) = <<>> THEN text
    ELSE AnonymizerReplaces(text, Redacted(text, st), 0)

\* C32: the subject and the body classify_email is called with are the outputs of
\* the redaction step for the fetched message: the fetched text itself where the
\* redaction found nothing, filtered every entity out or soft-failed, and
\* otherwise the anonymized text, which differs from the fetched one.
C32_LLMGetsRedactedText ==
    \A w \in Workers : \A k \in 1..Len(calls[w]) :
        calls[w][k].op = "classify_email"
        => LET c == calls[w][k]
               e == Mailbox(mid[w])
               st == calls[w][k - 1].out
           IN  /\ calls[w][k - 1].op = "mask_email_content"
               /\ c.subject = RedactionOutput(e.subject, st)
               /\ c.body = RedactionOutput(e.body_content, st)
               /\ (Redacted(e.subject, st) # <<>> => c.subject # e.subject)
               /\ (Redacted(e.body_content, st) # <<>> => c.body # e.body_content)

C32_Witness ==
    \E w \in Workers : \E k \in 1..Len(calls[w]) :
        /\ calls[w][k].op = "classify_email"
        /\ calls[w][k].subject = <<"Hi", " ", "<PERSON>">>
        /\ calls[w][k].body = <<"<EMAIL_ADDRESS>", " ", "<PHONE_NUMBER>">>
        /\ Mailbox(mid[w]).subject = <<"Hi", " ", "John">>

\* the entities the analyzer reported for the text of a mask_pii call (none for a
\* blank text, for which the analyzer is not asked) and those the trusted-domain
\* filter leaves of them
DetectedIn(p) == IF IsBlank(p.in.text) THEN <<>> ELSE analyze_text(p.in.an)
KeptIn(p) == filter_regent_emails(p.in.text, DetectedIn(p))

\* C33: mask_pii calls the anonymizer exactly when an entity remains after the
\* trusted-domain filter; the payload then holds the original text and the
\* filtered entity list; when none remains no call is made and the text comes
\* back unchanged.
C33_AnonymizerCalledOnFiltered ==
    (probe.fn = "mask_pii" /\ probe.done)
    => /\ probe.out.anonymized <=> (KeptIn(probe) # <<>>)
       /\ probe.out.anonymized
            => (probe.out.sent = KeptIn(probe) /\ probe.out.sent_text = probe.in.text)
       /\ ~probe.out.anonymized => probe.out.masked_text = probe.in.text

C33_Witness ==
    /\ probe.fn = "mask_pii"
    /\ probe.done
    /\ probe.out.anonymized
    /\ Len(DetectedIn(probe)) = 2
    /\ Len(probe.out.sent) = 1
    /\ probe.out.masked_text # probe.in.text

\* the span s is one address: a local part and the atoms of its domain
IsAddress(s) ==
    /\ Len(s) >= 2
    /\ s[1] \in LocalParts
    /\ s[2] \in DomainAtoms
    /\ \A j \in 3..Len(s) : s[j] = ".example.com"
\* the domain of the address s, all that follows the local part, is a trusted one
InTrustedDomain(s) == Len(s) = 2 /\ LowerAtom(s[2]) \in regent_domains

\* C38: of the addresses the analyzer detected in the text of a mask_pii call,
\* only those whose domain is a trusted domain are taken out of the entity list:
\* a detected address of any other domain, one that only contains a trusted
\* domain included, is in the list the filter leaves for the anonymizer.
C38_OnlyTrustedDomainExempt ==
    (probe.fn = "mask_pii" /\ probe.done)
    => \A k \in 1..Len(DetectedIn(probe)) :
          LET e == DetectedIn(probe)[k]
              s == TextSlice(probe.in.text, e.start, e.end)
          IN  (e.entity_type = "EMAIL_ADDRESS" /\ IsAddress(s) /\ ~InTrustedDomain(s))
              => \E j \in 1..Len(KeptIn(probe)) : KeptIn(probe)[j] = e

\* C39: the save_email step of the procedure leaves a row for the message whose
\* subject, snippet, from_address and from_name are the fetched values (the
\* subject "(No subject)" for an empty one), whatever the redaction made of
\* them: the redacted text goes to the LLM and into body_text only.
C39_FetchedValuesPersisted ==
    [][\A w \in Workers :
         (pc[w] = "save" /\ pc'[w] # "save")
         => \E row \in store' :
               /\ row.message_id = mid[w]
               /\ row.subject = OrText(email[w].subject, <<"(No subject)">>)
               /\ row.snippet = OrStr(email[w].body_preview, "")
               /\ row.from_address = email[w].from_address
               /\ row.from_name = email[w].from_name]_vars

\* the subscriptions the create endpoint has had accepted in this request
Registered ==
    {admin.calls[k].payload : k \in {j \in 1..Len(admin.calls) :
                                        /\ admin.calls[j].op = "create_subscription"
                                        /\ admin.calls[j].out = "ok"}}
\* the notifications the provider sends for a subscription: its clientState
\* echoed, a change type it subscribed to, a message of its resource
NotificationsOf(p) ==
    {[kind |-> "object", clientState |-> p.clientState, changeType |-> ct,
      resource |-> Path(p.resource \o <<"/", m>>)] : ct \in p.changeType, m \in MsgIds}

\* C37: the subscription the create endpoint registers carries the configured
\* value the webhook handler compares clientState with and the one change type
\* "created", so every notification the provider sends for it (that clientState
\* echoed, a change type of the subscription) passes the client-state and the
\* change-type check of the handler, and names a message the handler extracts.
C37_RegisteredStateAccepted ==
    \A p \in Registered :
        /\ p.clientState = expected_state
        /\ p.changeType = {"created"}
        /\ \A e \in NotificationsOf(p) :
              /\ ClientStateOk(e)
              /\ ChangeTypeOk(e)
              /\ HandedId(e.resource.path) \in MsgIds

\* C37 witness: the create endpoint has had a subscription accepted.
C37_Witness ==
    /\ admin.pc = "done"
    /\ admin.resp.status = 200
    /\ Registered # {}
    /\ \E p \in Registered : p.notificationUrl = "https://w" /\ NotificationsOf(p) # {}

\* classifier.py 73-81 and 146-153: the result is one of the two fallback results
IsFallback(r) == r.kind = "return" /\ r.reason.k \in {"http", "parse"}

\* C36: when the procedure has classified a message with a fallback result (the
\* LLM answered with a non-success status or with a reply that could not be
\* parsed), it has called the category write, and its save_email step leaves a row
\* for the message with the classification "general" and the confidence 0.0, the
\* row that stops a later delivery at the existence check.
C36_FallbackPersisted ==
    [][\A w \in Workers :
         (pc[w] = "save" /\ IsFallback(result[w]) /\ pc'[w] # "save")
         => /\ "apply_category_to_email" \in Ops(calls[w])
            /\ \E row \in store' : /\ row.message_id = mid[w]
                                   /\ row.classification = "general"
                                   /\ row.confidence = 0]_vars

\* the calls of the run so far that carry the bearer token
TokenBearing(cs) == SelectSeq(cs, LAMBDA c : c.op \in {"list_subscriptions", "renew_subscription"})
\* the token exchange or the listing of the run has failed
CronRunFailed ==
    \E k \in 1..Len(cron.calls) :
        /\ cron.calls[k].op \in {"get_access_token", "list_subscriptions"}
        /\ cron.calls[k].out = "fail"

\* C35: a run of the scheduled handler whose token exchange or listing failed
\* has returned with no renew call made and nothing called after the failure;
\* every run exchanges the credentials for a token at most once, and the listing
\* and every renew call of the run carry that one token.
C35_OneTokenNoRenewAfterFailure ==
    /\ CronRunFailed
       => /\ cron.pc = "done"
          /\ RenewedIds(cron.calls) = <<>>
          /\ cron.calls[Len(cron.calls)].out = "fail"
          /\ cron.calls[Len(cron.calls)].op \in {"get_access_token", "list_subscriptions"}
    /\ Len(SelectSeq(cron.calls, LAMBDA c : c.op = "get_access_token")) <= 1
    /\ Len(cron.used) = Len(TokenBearing(cron.calls))
    /\ \A k \in 1..Len(cron.used) : cron.used[k] = cron.access_token /\ cron.used[k] # Null

\* C35 witness: the token was obtained, the listing failed, and the run has
\* returned after these two calls.
C35_Witness ==
    /\ cron.pc = "done"
    /\ cron.calls = <<CronCall("get_access_token", "", "ok"),
                      CronCall("list_subscriptions", "", "fail")>>
    /\ cron.used = <<cron.access_token>>

\* C34: a renewal asks for the expiration of the time of the call plus 4230
\* minutes, so when the trigger period is shorter than 4230 minutes and no run
\* has failed, the subscription has not reached its expiration at any time, and
\* every run of the trigger has renewed it.
C34_RenewedBeforeExpiry ==
    (timeline.period > 0 /\ timeline.period < expiration_minutes /\ ~timeline.failed)
    => /\ timeline.now < timeline.expires
       /\ timeline.renewed > 0 => timeline.expires = (timeline.next_fire - timeline.period)
                                                      + expiration_minutes

C34_Witness ==
    /\ timeline.period = 4229
    /\ timeline.renewed >= 4
    /\ ~timeline.failed
    /\ timeline.now = timeline.next_fire
    /\ timeline.expires = timeline.now + 1

====
